---- MODULE Spec2Model ----
(***************************************************************************)
(* A model of the HTML -> PPTX converter with automatic repair:            *)
(*   convert.js  tryConvertWithAutoFix (convert, repair once, convert)     *)
(*   auto_fix.js ErrorFixer and its three fixers, autoFixHtml              *)
(*   html2pptx.js the aggregation of validation errors into one failure    *)
(*                                                                         *)
(* Text is modelled as a sequence of tokens (strings).  A stylesheet is    *)
(* the token sequence of its source, e.g.                                  *)
(*   ".", "box", "{", "border", ":", "1px", ";", "color", ":", "#111", "}" *)
(* and the regular expressions of the fixers are evaluated over tokens.    *)
(* SP is one space character, GAP a longer run of blanks and line breaks    *)
(* (indentation), TAB a tab character.                                     *)
(***************************************************************************)
EXTENDS Naturals, Integers, Sequences, FiniteSets, TLC

VARIABLES
  file,        \* content of the HTML file on disk: [markup, authored]
  backup,      \* content of <htmlPath>.backup: <<>> when absent, else <<content>>
  original,    \* history: the file content when the run started
  pc,          \* position of the running procedure
  lastError,   \* tryConvertWithAutoFix: lastError (token sequence)
  fixers,      \* autoFixHtml: the fixer objects, in the order of the array
  idx,         \* autoFixHtml: index of the fixer the for-loop is at
  hasAnyFix,   \* autoFixHtml: hasAnyFix
  applied,     \* autoFixHtml: appliedFixers
  result,      \* tryConvertWithAutoFix: the returned object (<<>> until it returns)
  calls,       \* history: the calls made by tryConvertWithAutoFix, in order
  conv,        \* html2pptx: inputs and outcome of the last call
  passes,      \* history: one entry per completed gradient-fixer pass
  page,        \* extractSlideData: what the rendered page holds (<<>> when unused)
  slideData    \* extractSlideData: what has been extracted from the page

vars == <<file, backup, original, pc, lastError, fixers, idx, hasAnyFix,
          applied, result, calls, conv, passes, page, slideData>>

---------------------------------------------------------------------------
(* Bounds *)

MaxPieces == 2       \* rules concatenated into the stylesheet of a gradient run
MaxPasses == 2       \* passes of the gradient fixer over one file
MaxStyles == 2       \* <style> elements of a document
MaxKids == 1         \* children of the body of a document

---------------------------------------------------------------------------
(* Token helpers *)

SP == " "
GAP == "\n"
TAB == "\t"

\* TLC evaluates the argument of an operator, and a LET definition, again each
\* time it is used.  Val({e : x \in {v}}) evaluates v once and is e with x bound
\* to that value; \E x \in {v} : P does the same for a predicate P.
Val(S) == CHOOSE v \in S : TRUE

IsSpace(t) == t \in {SP, GAP, TAB}

Min(S) == CHOOSE x \in S : \A y \in S : x <= y

Max(S) == CHOOSE x \in S : \A y \in S : x >= y

At(s, i) == IF i >= 1 /\ i <= Len(s) THEN s[i] ELSE "<end>"

\* s.substring(a - 1, b): the tokens a..b that exist
Slice(s, a, b) == SubSeq(s, a, IF b > Len(s) THEN Len(s) ELSE b)

\* index of the first occurrence of tok in s at or after from, 0 when none
IndexOfFrom(s, tok, from) ==
  Val({IF c = {} THEN 0 ELSE Min(c) : c \in {{k \in from..Len(s) : s[k] = tok}}})

\* \s* : index of the first token at or after i that is not white space
SkipSpace(s, i) ==
  Val({IF c = {} THEN Len(s) + 1 ELSE Min(c) :
         c \in {{k \in i..Len(s) : ~IsSpace(s[k])}}})

\* String.prototype.includes over tokens
Includes(s, sub) ==
  \E t \in {s}, u \in {sub} :
    \E i \in 1..(Len(t) + 1 - Len(u)) : SubSeq(t, i, i + Len(u) - 1) = u

\* String.prototype.startsWith over tokens
StartsWith(s, pre) ==
  Len(pre) <= Len(s) /\ SubSeq(s, 1, Len(pre)) = pre

\* String.prototype.trim over tokens
Trim(s) ==
  Val({Val({IF c = {} THEN <<>> ELSE SubSeq(t, Min(c), Max(c)) :
              c \in {{k \in 1..Len(t) : ~IsSpace(t[k])}}}) : t \in {s}})

Concat(ss) ==
  Val({LET cat[i \in 1..(Len(v) + 1)] ==
             IF i > Len(v) THEN <<>> ELSE v[i] \o cat[i + 1]
       IN  cat[1] : v \in {ss}})

\* Array.prototype.join over token sequences
JoinWith(ss, sep) ==
  Val({LET join[i \in 1..(Len(v) + 1)] ==
             IF i > Len(v) THEN <<>>
             ELSE IF i = Len(v) THEN v[i]
             ELSE v[i] \o sep \o join[i + 1]
       IN  join[1] : v \in {ss}})

\* String.prototype.split over tokens: the pieces between occurrences of tok
SplitOn(s, tok) ==
  Val({LET split[i \in 1..(Len(t) + 1)] ==
             Val({IF k = 0 THEN <<SubSeq(t, i, Len(t))>>
                  ELSE <<SubSeq(t, i, k - 1)>> \o split[k + 1] :
                    k \in {IndexOfFrom(t, tok, i)}})
       IN  split[1] : t \in {s}})

---------------------------------------------------------------------------
(* CssGradientFixer: the stylesheet rewrites *)

\* /#[0-9a-fA-F]{3,6}/ on a hex token: the literal cut to six digits
HexLiteral ==
  [t \in {"#ff0000", "#0000ff", "#000", "#111", "#ff000080"} |->
     IF t = "#ff000080" THEN "#ff0000" ELSE t]

ColorNames ==
  {"red", "blue", "green", "yellow", "purple", "orange", "pink", "black",
   "white", "gray", "grey"}

\* /rgba?\([^)]+\)/ matched at i: index of the closing parenthesis, 0 when none
rgbMatchEnd(s, i) ==
  IF At(s, i) \in {"rgb", "rgba"} /\ At(s, i + 1) = "("
  THEN Val({IF q # 0 /\ q >= i + 3 THEN q ELSE 0 : q \in {IndexOfFrom(s, ")", i + 2)}})
  ELSE 0

extractFirstColor(gradientString) ==
  Val({Val({IF hexs # {} THEN <<HexLiteral[s[Min(hexs)]]>>
            ELSE IF rgbs # {} THEN SubSeq(s, Min(rgbs), rgbMatchEnd(s, Min(rgbs)))
            ELSE IF nms # {} THEN <<s[Min(nms)]>>
            ELSE <<"#000000">> :
              hexs \in {{k \in 1..Len(s) : s[k] \in DOMAIN HexLiteral}},
              rgbs \in {{k \in 1..Len(s) : rgbMatchEnd(s, k) # 0}},
              nms  \in {{k \in 1..Len(s) : s[k] \in ColorNames}}}) :
         s \in {gradientString}})

\* /background:\s*<fn>\([^;]+\);/ matched at i: index of the final ";", 0 when none
gradientMatchEnd(s, i, fn) ==
  IF At(s, i) = "background" /\ At(s, i + 1) = ":"
  THEN Val({IF At(s, j) = fn /\ At(s, j + 1) = "("
            THEN Val({IF k # 0 /\ k - 1 >= j + 3 /\ s[k - 1] = ")" THEN k ELSE 0 :
                        k \in {IndexOfFrom(s, ";", j + 2)}})
            ELSE 0 : j \in {SkipSpace(s, i + 2)}})
  ELSE 0

\* cssContent.replace(regex /g, match => `background: ${firstColor};`)
\* out[i]: the text from token i on, m the starts of the matches at or after i
replaceGradients(cssContent, fn) ==
  Val({LET out[i \in 1..(Len(s) + 1)] ==
             Val({IF m = {} THEN SubSeq(s, i, Len(s))
                  ELSE SubSeq(s, i, Min(m) - 1)
                       \o <<"background", ":", SP>>
                       \o extractFirstColor(SubSeq(s, Min(m),
                                                   gradientMatchEnd(s, Min(m), fn)))
                       \o <<";">> \o out[gradientMatchEnd(s, Min(m), fn) + 1] :
                    m \in {{k \in i..Len(s) : gradientMatchEnd(s, k, fn) # 0}}})
       IN  out[1] : s \in {cssContent}})

fixLinearGradients(cssContent) == replaceGradients(cssContent, "linear-gradient")

fixRadialGradients(cssContent) == replaceGradients(cssContent, "radial-gradient")

\* /background-image:\s*url\([^)]*\);/ matched at i: index of the final ";"
backgroundImageMatchEnd(s, i) ==
  IF Slice(s, i, i + 3) = <<"background", "-", "image", ":">>
  THEN Val({IF At(s, j) = "url" /\ At(s, j + 1) = "("
            THEN Val({IF q # 0 /\ At(s, q + 1) = ";" THEN q + 1 ELSE 0 :
                        q \in {IndexOfFrom(s, ")", j + 2)}})
            ELSE 0 : j \in {SkipSpace(s, i + 4)}})
  ELSE 0

DefaultBackground == <<"background", "-", "color", ":", SP, "#f5f5f5", ";">>

\* cssContent.replace(regex /g, "background-color: #f5f5f5;")
fixBackgroundImages(cssContent) ==
  Val({LET out[i \in 1..(Len(s) + 1)] ==
             Val({IF m = {} THEN SubSeq(s, i, Len(s))
                  ELSE SubSeq(s, i, Min(m) - 1) \o DefaultBackground
                       \o out[backgroundImageMatchEnd(s, Min(m)) + 1] :
                    m \in {{k \in i..Len(s) : backgroundImageMatchEnd(s, k) # 0}}})
       IN  out[1] : s \in {cssContent}})

\* the three rewrites of one <style> element, in the order of fix()
fixStyleContent(cssContent) ==
  fixBackgroundImages(fixRadialGradients(fixLinearGradients(cssContent)))

---------------------------------------------------------------------------
(* The document: the <style> elements in document order and the body tree *)

TextNode(t) == [tag |-> "#text", attrs |-> <<>>, text |-> t, kids |-> <<>>]

Elem(tag, attrs, kids) == [tag |-> tag, attrs |-> attrs, text |-> <<>>, kids |-> kids]

Attr(n, v) == [name |-> n, value |-> v]

Body(kids) == Elem("body", <<>>, kids)

IsText(n) == n.tag = "#text"

\* element.className: the value of the class attribute, "" when there is none
className(el) ==
  Val({IF c = {} THEN <<>> ELSE el.attrs[Min(c)].value :
         c \in {{k \in 1..Len(el.attrs) : el.attrs[k].name = "class"}}})

RECURSIVE NodeAt(_, _)
NodeAt(node, at) ==
  Val({IF path = <<>> THEN n ELSE NodeAt(n.kids[Head(path)], Tail(path)) :
         n \in {node}, path \in {at}})

RECURSIVE ReplaceAt(_, _, _)
ReplaceAt(node, at, new) ==
  Val({IF path = <<>> THEN new
       ELSE [n EXCEPT !.kids[Head(path)] =
                        ReplaceAt(n.kids[Head(path)], Tail(path), new)] :
         n \in {node}, path \in {at}})

\* the paths of the elements with this tag below n, in document order
RECURSIVE PathsOf(_, _, _)
PathsOf(node, at, tag) ==
  Val({(IF n.tag = tag /\ path # <<>> THEN <<path>> ELSE <<>>)
       \o Concat([k \in 1..Len(n.kids) |-> PathsOf(n.kids[k], Append(path, k), tag)]) :
         n \in {node}, path \in {at}})

querySelectorAll(document, tag) == PathsOf(document.body, <<>>, tag)

IsProperPrefix(p, q) == Len(p) < Len(q) /\ SubSeq(q, 1, Len(p)) = p

\* dom.serialize() as text, for String.prototype.includes
RECURSIVE NodeText(_)
NodeText(node) ==
  Val({IF IsText(n) THEN n.text
       ELSE <<"<", n.tag>>
            \o Concat([k \in 1..Len(n.attrs) |->
                         <<SP, n.attrs[k].name, "=", "\"">> \o n.attrs[k].value
                           \o <<"\"">>])
            \o <<">">>
            \o Concat([k \in 1..Len(n.kids) |-> NodeText(n.kids[k])])
            \o <<"</", n.tag, ">">> : n \in {node}})

HtmlText(markup) ==
  Val({Concat([k \in 1..Len(m.styles) |->
                 <<"<", "style", ">">> \o m.styles[k] \o <<"</", "style", ">">>])
       \o NodeText(m.body) : m \in {markup}})

\* new JSDOM(content): the document of a file content
JSDOM(content) == content.markup

\* dom.serialize(): the serializer's text of a document, never the authored bytes
serialize(dom) == [markup |-> dom, authored |-> FALSE]

---------------------------------------------------------------------------
(* ErrorFixer *)

\* runs counts the calls of fix(); matched records the result of canFix()
ErrorFixer(name, errorMessage, content) ==
  [name |-> name, errorMessage |-> errorMessage, htmlContent |-> content,
   dom |-> JSDOM(content), fixed |-> FALSE, matched |-> FALSE, runs |-> 0,
   fixCount |-> 0]

\* save(backupOriginal) on the files [file, backup]: the files afterwards
save(fixer, backupOriginal, files) ==
  IF ~fixer.fixed THEN files
  ELSE [file   |-> serialize(fixer.dom),
        backup |-> IF backupOriginal /\ files.backup = <<>>
                   THEN <<files.file>> ELSE files.backup]

saveReturns(fixer) == fixer.fixed

\* the members of a set of numbers in ascending order
Ascending(S) ==
  Val({LET asc[T \in SUBSET U] ==
             IF T = {} THEN <<>> ELSE <<Min(T)>> \o asc[T \ {Min(T)}]
       IN  asc[U] : U \in {S}})

\* [...new Set(seq)]: the distinct entries in the order of their first occurrence
Distinct(seq) ==
  Val({LET keep == {k \in 1..Len(s) : \A j \in 1..(k - 1) : s[j] # s[k]}
           order == Ascending(keep)
       IN  [k \in 1..Len(order) |-> s[order[k]]] : s \in {seq}})

---------------------------------------------------------------------------
(* The words of the validation errors that the fixers look for            *)

E_TEXT_ELEMENT == "text element <"   \* the message's words before the tag name
E_HAS == "> has "                    \* ... between the tag name and the style type
E_ONLY_DIV == ". only <div> supports background, border and shadow"
E_UNWRAPPED == "DIV contains unwrapped text"
E_USE_SOLID == "use a solid color or a border as the shape"
E_DIV_BG_IMAGE == "background image on DIV is not supported. "
E_WRAP_HINT == ". wrap all text in <p>, <h1>-<h6>, <ul> or <ol>"

StyleTypes == {"border", "background", "shadow"}

\* \w+ : the tag names that occur in messages
TagWords == {"p", "h1", "h2", "h3", "ul", "ol", "li"}

---------------------------------------------------------------------------
(* TextElementBorderFixer *)

\* errorMessage.matchAll(/<text element> <(\w+)> <has> (border|background|shadow)/g)
paintMatches(errorMessage) ==
  Ascending({i \in 1..Len(errorMessage) :
               /\ errorMessage[i] = E_TEXT_ELEMENT
               /\ At(errorMessage, i + 1) \in TagWords
               /\ At(errorMessage, i + 2) = E_HAS
               /\ At(errorMessage, i + 3) \in StyleTypes})

TextElementBorderFixer_canFix(fixer) == paintMatches(fixer.errorMessage) # <<>>

tagNamesOf(errorMessage) ==
  Val({Distinct([k \in 1..Len(m) |-> errorMessage[m[k] + 1]]) :
         m \in {paintMatches(errorMessage)}})

styleTypeOf(errorMessage) == errorMessage[paintMatches(errorMessage)[1] + 3]

\* the index of the first <style> element whose text includes .className, 0 when none
findStyleForClass(document, cn) ==
  Val({IF c = {} THEN 0 ELSE Min(c) :
         c \in {{k \in 1..Len(document.styles) :
                   Includes(document.styles[k], <<".">> \o cn)}}})

containerStyleProps ==
  {<<"background">>, <<"background", "-", "color">>, <<"background", "-", "image">>,
   <<"background", "-", "size">>, <<"background", "-", "position">>,
   <<"background", "-", "repeat">>, <<"background", "-", "attachment">>,
   <<"border">>, <<"border", "-", "top">>, <<"border", "-", "right">>,
   <<"border", "-", "bottom">>, <<"border", "-", "left">>,
   <<"border", "-", "width">>, <<"border", "-", "style">>,
   <<"border", "-", "color">>, <<"border", "-", "radius">>,
   <<"box", "-", "shadow">>}

isContainerStyle(prop) ==
  \E p \in {prop} :
    \E cp \in containerStyleProps : p = cp \/ StartsWith(p, cp \o <<"-">>)

\* /\.<className>\s*\{([^}]+)\}/ matched at i: <<open, close>> of the braces, or <<>>
ruleMatchAt(s, cn, i) ==
  IF Slice(s, i, i + Len(cn)) = <<".">> \o cn
  THEN Val({IF At(s, j) = "{"
            THEN Val({IF e # 0 /\ e >= j + 2 THEN <<j, e>> ELSE <<>> :
                        e \in {IndexOfFrom(s, "}", j + 1)}})
            ELSE <<>> : j \in {SkipSpace(s, i + Len(cn) + 1)}})
  ELSE <<>>

\* the first match of the class rule: [start, open, close], start = 0 when none
ruleMatch(cssContent, cls) ==
  Val({Val({IF c = {} THEN [start |-> 0, open |-> 0, close |-> 0]
            ELSE Val({[start |-> Min(c), open |-> m[1], close |-> m[2]] :
                        m \in {ruleMatchAt(s, cn, Min(c))}}) :
              c \in {{i \in 1..Len(s) : ruleMatchAt(s, cn, i) # <<>>}}}) :
         s \in {cssContent}, cn \in {cls}})

\* styleBlock.split(";").map(trim).filter(nonempty)
styleLinesOf(styleBlock) ==
  Val({LET NonEmpty(l) == l # <<>>
       IN  SelectSeq([k \in 1..Len(parts) |-> Trim(parts[k])], NonEmpty) :
         parts \in {SplitOn(styleBlock, ";")}})

\* line.split(":")[0].trim()
propOf(line) == Trim(SplitOn(line, ":")[1])

separateStyles(cssContent, cn) ==
  Val({IF m.start = 0 THEN [textStyles |-> <<>>, containerStyles |-> <<>>]
       ELSE Val({LET IsContainer(l) == isContainerStyle(propOf(l))
                     IsTextLine(l) == ~isContainerStyle(propOf(l))
                 IN  [textStyles      |->
                        JoinWith(SelectSeq(lines, IsTextLine), <<";", GAP>>),
                      containerStyles |->
                        JoinWith(SelectSeq(lines, IsContainer), <<";", GAP>>)] :
                   lines \in {styleLinesOf(SubSeq(cssContent, m.open + 1,
                                                  m.close - 1))}}) :
         m \in {ruleMatch(cssContent, cn)}})

\* the new text of the <style> element
updateStyles(oldContent, cn, textStyles, containerStyles, tagName) ==
  Val({LET containerRule ==
             IF containerStyles # <<>>
             THEN <<GAP, ".">> \o cn \o <<SP, "{", GAP>> \o containerStyles
                    \o <<";", GAP, "}", GAP>>
             ELSE <<>>
           textRule ==
             IF textStyles # <<>>
             THEN <<GAP, ".">> \o cn \o <<SP, tagName, SP, "{", GAP>> \o textStyles
                    \o <<";", GAP, "}">>
             ELSE <<>>
       IN  IF m.start = 0 THEN oldContent
           ELSE SubSeq(oldContent, 1, m.start - 1) \o containerRule \o textRule
                  \o SubSeq(oldContent, m.close + 1, Len(oldContent)) :
         m \in {ruleMatch(oldContent, cn)}})

\* the attributes copied to the new inner element: all but class
otherAttributes(el) ==
  LET NotClass(a) == a.name # "class" IN SelectSeq(el.attrs, NotClass)

\* the body after element.parentNode.replaceChild(wrapper, element)
wrapElement(body, path, cn, tagName) ==
  Val({ReplaceAt(body, path,
                 Elem("div", <<Attr("class", cn)>>,
                      <<Elem(tagName, otherAttributes(element), element.kids)>>)) :
         element \in {NodeAt(body, path)}})

\* the body of elements.forEach for one element; st = [dom, replaced, fixCount],
\* replaced: the paths whose element this loop has taken out of the document.
\* An element below a replaced one is no longer in the document: wrapping it
\* changes the detached subtree only.
paintFixStyled(st, path, tagName, cn, k) ==
  Val({IF Trim(sep.containerStyles) = <<>> THEN st
       ELSE [dom |->
               [styles |-> [st.dom.styles EXCEPT ![k] =
                              updateStyles(st.dom.styles[k], cn, sep.textStyles,
                                           sep.containerStyles, tagName)],
                body   |-> IF \E w \in st.replaced : IsProperPrefix(w, path)
                           THEN st.dom.body
                           ELSE wrapElement(st.dom.body, path, cn, tagName)],
             replaced |-> st.replaced \cup {path},
             fixCount |-> st.fixCount + 1] :
         sep \in {separateStyles(st.dom.styles[k], cn)}})

paintFixElement(st, queried, path, tagName) ==
  Val({Val({IF cn = <<>> \/ k = 0 THEN st
            ELSE paintFixStyled(st, path, tagName, cn, k) :
              k \in {findStyleForClass(st.dom, cn)}}) :
         cn \in {className(NodeAt(queried.body, path))}})

\* elements.forEach over the elements found by querySelectorAll before the loop
paintFixElements(document, elements, tagName) ==
  Val({LET each[i \in 0..Len(paths)] ==
             IF i = 0 THEN [dom |-> dom, replaced |-> {}, fixCount |-> 0]
             ELSE Val({paintFixElement(st, dom, paths[i], tagName) :
                         st \in {each[i - 1]}})
       IN  each[Len(paths)] : dom \in {document}, paths \in {elements}})

\* this.tagNames.forEach: the document and the total fix count after every tag
paintFixTags(document, tagNames) ==
  Val({LET each[i \in 0..Len(tags)] ==
             IF i = 0 THEN [dom |-> dom, fixCount |-> 0]
             ELSE Val({Val({[dom      |-> st.dom,
                             fixCount |-> before.fixCount + st.fixCount] :
                              st \in {paintFixElements(
                                        before.dom,
                                        querySelectorAll(before.dom, tags[i]),
                                        tags[i])}}) :
                         before \in {each[i - 1]}})
       IN  each[Len(tags)] : dom \in {document}, tags \in {tagNames}})

TextElementBorderFixer_fix(fixer) ==
  Val({[fixer EXCEPT !.dom = r.dom, !.fixCount = r.fixCount,
                     !.fixed = (r.fixCount > 0)] :
         r \in {paintFixTags(fixer.dom, tagNamesOf(fixer.errorMessage))}})

---------------------------------------------------------------------------
(* UnwrappedTextFixer *)

UnwrappedTextFixer_canFix(fixer) == Includes(fixer.errorMessage, <<E_UNWRAPPED>>)

hasDirectTextNode(div) ==
  \E k \in 1..Len(div.kids) : IsText(div.kids[k]) /\ Trim(div.kids[k].text) # <<>>

determineWrapTag(div) ==
  \* includes("title") and neither "report-title" nor "page-title"
  IF \E cn \in {className(div)} :
       /\ Includes(cn, <<"title">>)
       /\ ~Includes(cn, <<"report", "-", "title">>)
       /\ ~Includes(cn, <<"page", "-", "title">>)
  THEN "h3" ELSE "p"

\* the children of the div after wrapTextContent
wrapTextContent(div, wrapTag) ==
  LET newChild(node) ==
        IF IsText(node)
        THEN IF Trim(node.text) # <<>>
             THEN <<Elem(wrapTag, <<>>, <<TextNode(Trim(node.text))>>)>>
             ELSE IF Includes(node.text, <<GAP>>) \/ Includes(node.text, <<SP>>)
                  THEN <<node>> ELSE <<>>
        ELSE <<node>>
  IN  [div EXCEPT !.kids = Concat([k \in 1..Len(div.kids) |-> newChild(div.kids[k])])]

\* the body of allDivs.forEach for one div; st as in paintFixElement.
\* wrapTextContent re-creates the div's children from clones, so the divs below a
\* rewritten div are no longer in the document when the loop reaches them.
unwrappedFixDiv(st, queried, path) ==
  Val({IF ~hasDirectTextNode(div) THEN st
       ELSE [dom |-> IF \E w \in st.replaced : IsProperPrefix(w, path)
                     THEN st.dom
                     ELSE [st.dom EXCEPT !.body =
                             ReplaceAt(st.dom.body, path,
                                       wrapTextContent(div, determineWrapTag(div)))],
             replaced |-> st.replaced \cup {path},
             fixCount |-> st.fixCount + 1] :
         div \in {NodeAt(queried.body, path)}})

\* mutation of UnwrappedTextFixer_fix: success is reported, nothing is rewritten
UnwrappedTextFixer_fixNothing(fixer) == [fixer EXCEPT !.fixed = TRUE]

\* allDivs.forEach over the divs found by querySelectorAll before the loop
unwrappedFixDivs(document, allDivs) ==
  Val({LET each[i \in 0..Len(paths)] ==
             IF i = 0 THEN [dom |-> dom, replaced |-> {}, fixCount |-> 0]
             ELSE Val({unwrappedFixDiv(st, dom, paths[i]) : st \in {each[i - 1]}})
       IN  each[Len(paths)] : dom \in {document}, paths \in {allDivs}})

UnwrappedTextFixer_fix(fixer) ==
  Val({Val({[fixer EXCEPT !.dom = st.dom, !.fixCount = st.fixCount,
                          !.fixed = (st.fixCount > 0)] :
              st \in {unwrappedFixDivs(dom, querySelectorAll(dom, "div"))}}) :
         dom \in {fixer.dom}})

---------------------------------------------------------------------------
(* CssGradientFixer *)

\* mutation of CssGradientFixer_canFix: the markup is not looked at
CssGradientFixer_canFixByError(fixer) == Includes(fixer.errorMessage, <<E_USE_SOLID>>)

CssGradientFixer_canFix(fixer) ==
  \/ Includes(fixer.errorMessage, <<E_USE_SOLID>>)
  \/ \E html \in {HtmlText(fixer.htmlContent.markup)} :
       \/ Includes(html, <<"linear-gradient">>)
       \/ Includes(html, <<"radial-gradient">>)
       \/ Includes(html, <<"background", "-", "image", ":", SP, "url", "(">>)

\* styleElements.forEach: a <style> element counts when its text changes
CssGradientFixer_fix(fixer) ==
  Val({Val({[fixer EXCEPT !.dom = [styles |-> new, body |-> fixer.dom.body],
                          !.fixCount = fixCount, !.fixed = (fixCount > 0)] :
              fixCount \in {Cardinality({k \in 1..Len(new) :
                                           new[k] # fixer.dom.styles[k]})}}) :
         new \in {[k \in 1..Len(fixer.dom.styles) |->
                     fixStyleContent(fixer.dom.styles[k])]}})

---------------------------------------------------------------------------
(* html2pptx: the validation errors and the failure raised from them *)

E_OVERFLOW == " content overflows the body"      \* after the leading word HTML
E_SIZE_MISMATCH == " size does not match the presentation layout"
E_TEXT_BOX == "text box too close to the bottom"
E_CSS_GRADIENT == "CSS gradients are not supported"
E_OR_ADD_IMAGE == ", or overlay the image with slide.addImage()"
E_MULTIPLE == "multiple validation errors found:"
E_RENDER == "Navigation timeout of 30000 ms exceeded"
E_EMIT == "ENOENT: no such file or directory, open image"

PaintError(tag, type) == <<E_TEXT_ELEMENT, tag, E_HAS, type, E_ONLY_DIV>>
UnwrappedError == <<E_UNWRAPPED, E_WRAP_HINT>>
ShapeBackgroundError == <<E_DIV_BG_IMAGE, E_USE_SOLID, E_OR_ADD_IMAGE>>
GradientError == <<E_CSS_GRADIENT>>
OverflowError == <<"HTML", E_OVERFLOW>>
DimensionError == <<"HTML", E_SIZE_MISMATCH>>
TextBoxError == <<E_TEXT_BOX>>

\* `${i + 1}` for the positions of the numbered summary
Numeral == <<"1", "2", "3", "4", "5", "6", "7", "8", "9">>

\* validationErrors.map((e, i) => `  ${i + 1}. ${e}`).join("\n")
RECURSIVE numberedLines(_, _)
numberedLines(errors, i) ==
  IF i > Len(errors) THEN <<>>
  ELSE (IF i > 1 THEN <<"\n">> ELSE <<>>)
       \o <<"  ", Numeral[i], ". ">> \o errors[i] \o numberedLines(errors, i + 1)

\* mutation of collectValidationErrors: the first failing check ends the collection
collectFirstFailingCheck(in) ==
  IF in.overflow # <<>> THEN in.overflow
  ELSE IF in.dimension # <<>> THEN in.dimension
  ELSE IF in.textBox # <<>> THEN in.textBox
  ELSE in.slide

\* the validation errors in the order html2pptx pushes them
collectValidationErrors(in) == in.overflow \o in.dimension \o in.textBox \o in.slide

\* the message of the Error thrown when validationErrors is not empty
aggregateMessage(validationErrors) ==
  IF Len(validationErrors) = 1 THEN validationErrors[1]
  ELSE <<E_MULTIPLE, "\n">> \o numberedLines(validationErrors, 1)

\* the outer catch: the message is prefixed by the file name unless it starts with it
finalMessage(htmlFile, message) ==
  IF ~StartsWith(message, htmlFile) THEN htmlFile \o <<": ">> \o message ELSE message

\* one call of html2pptx(htmlFile, pres).  in.renderFailure is the message of an
\* exception raised while the browser loads and measures the page, in.emitFailure
\* that of one raised while the slide is written (images, background, elements);
\* <<>> when there is none.
html2pptx(htmlFile, in) ==
  IF in.renderFailure # <<>>
  THEN [called |-> TRUE, htmlFile |-> htmlFile, in |-> in, rendered |-> FALSE,
        validationErrors |-> <<>>, threw |-> TRUE,
        message |-> finalMessage(htmlFile, in.renderFailure)]
  ELSE Val({IF Len(validationErrors) > 0
            THEN [called |-> TRUE, htmlFile |-> htmlFile, in |-> in, rendered |-> TRUE,
                  validationErrors |-> validationErrors, threw |-> TRUE,
                  message |-> finalMessage(htmlFile,
                                           aggregateMessage(validationErrors))]
            ELSE IF in.emitFailure # <<>>
            THEN [called |-> TRUE, htmlFile |-> htmlFile, in |-> in, rendered |-> TRUE,
                  validationErrors |-> validationErrors, threw |-> TRUE,
                  message |-> finalMessage(htmlFile, in.emitFailure)]
            ELSE [called |-> TRUE, htmlFile |-> htmlFile, in |-> in, rendered |-> TRUE,
                  validationErrors |-> validationErrors, threw |-> FALSE,
                  message |-> <<>>] :
              validationErrors \in {collectValidationErrors(in)}})

NoInput ==
  [overflow |-> <<>>, dimension |-> <<>>, textBox |-> <<>>, slide |-> <<>>,
   renderFailure |-> <<>>, emitFailure |-> <<>>]

NoConversion ==
  [called |-> FALSE, htmlFile |-> <<>>, in |-> NoInput, rendered |-> FALSE,
   validationErrors |-> <<>>, threw |-> FALSE, message |-> <<>>]

---------------------------------------------------------------------------
(* The documents and inputs the model runs on *)

SeqsUpTo(S, n) == UNION {[1..k -> S] : k \in 0..n}

\* .box{border:1px solid #000;color:#111}
S_box ==
  <<".", "box", "{", "border", ":", "1px", SP, "solid", SP, "#000", ";",
    "color", ":", "#111", "}">>
\* .box { color: #111; }
S_plain == <<".", "box", SP, "{", SP, "color", ":", SP, "#111", ";", SP, "}">>
\* .bg { background: linear-gradient(to right, #ff0000, #0000ff); }
S_gradient ==
  <<".", "bg", SP, "{", GAP, "background", ":", SP, "linear-gradient", "(",
    "to", SP, "right", ",", SP, "#ff0000", ",", SP, "#0000ff", ")", ";", GAP, "}">>
\* .hero { background-image: url(x.png); }
S_image ==
  <<".", "hero", SP, "{", SP, "background", "-", "image", ":", SP, "url", "(",
    "x.png", ")", ";", SP, "}">>

StyleLib == {S_box, S_plain, S_gradient}

InlineBorder == <<"border", ":", SP, "1px", SP, "solid", SP, "red", ";">>

\* <p class="box">T</p>
P_box == Elem("p", <<Attr("class", <<"box">>)>>, <<TextNode(<<"T">>)>>)
\* <h1 class="box">T</h1>
H_box == Elem("h1", <<Attr("class", <<"box">>)>>, <<TextNode(<<"T">>)>>)
\* <div><h1 class="box">T</h1><p class="box">T</p></div>
D_pair == Elem("div", <<>>, <<H_box, P_box>>)
\* <div>Hello<p class="box">T</p></div>
D_mixed == Elem("div", <<>>, <<TextNode(<<"Hello">>), P_box>>)
\* <p class="box" style="border: 1px solid red;">T</p>
P_inline ==
  Elem("p", <<Attr("class", <<"box">>), Attr("style", InlineBorder)>>,
       <<TextNode(<<"T">>)>>)
\* <div class="content">Hello</div>
D_content == Elem("div", <<Attr("class", <<"content">>)>>, <<TextNode(<<"Hello">>)>>)
\* <div>A<div>B</div></div>
D_nested ==
  Elem("div", <<>>, <<TextNode(<<"A">>), Elem("div", <<>>, <<TextNode(<<"B">>)>>)>>)
\* <div class="card-title">(indent)<p>x</p> T (tab)</div> with a tab-only text
\* node between two elements
D_title ==
  Elem("div", <<Attr("class", <<"card", "-", "title">>)>>,
       <<TextNode(<<GAP>>), Elem("p", <<>>, <<TextNode(<<"x">>)>>),
         TextNode(<<SP, "T", SP>>), Elem("p", <<>>, <<TextNode(<<"y">>)>>),
         TextNode(<<TAB>>), Elem("p", <<>>, <<TextNode(<<"z">>)>>)>>)

BodyLib == {P_box, P_inline, D_content, D_nested, D_title, D_pair, D_mixed}

Documents ==
  {[styles |-> st, body |-> Body(kids)] :
     st \in SeqsUpTo(StyleLib, MaxStyles),
     kids \in SeqsUpTo(BodyLib, MaxKids) \ {<<>>}}

HtmlFile == <<"slide.html">>

SlideErrorLists ==
  {<<>>,
   <<PaintError("p", "border")>>,
   <<PaintError("h1", "border"), PaintError("p", "border")>>,
   <<UnwrappedError>>,
   <<ShapeBackgroundError>>,
   <<PaintError("p", "border"), UnwrappedError>>,
   <<GradientError>>}

\* what one conversion can meet during a run of tryConvertWithAutoFix
RunInputs ==
  {[NoInput EXCEPT !.slide = l] : l \in SlideErrorLists}
  \cup {[NoInput EXCEPT !.overflow = <<OverflowError>>],
        [NoInput EXCEPT !.renderFailure = <<E_RENDER>>],
        [NoInput EXCEPT !.emitFailure = <<E_EMIT>>]}

---------------------------------------------------------------------------
(* autoFixHtml, one action per iteration of its for-loop *)

FixerNames == <<"TextElementBorderFixer", "UnwrappedTextFixer", "CssGradientFixer">>

canFix(fixer) ==
  CASE fixer.name = "TextElementBorderFixer" -> TextElementBorderFixer_canFix(fixer)
    [] fixer.name = "UnwrappedTextFixer" -> UnwrappedTextFixer_canFix(fixer)
    [] OTHER -> CssGradientFixer_canFix(fixer)

fix(fixer) ==
  CASE fixer.name = "TextElementBorderFixer" -> TextElementBorderFixer_fix(fixer)
    [] fixer.name = "UnwrappedTextFixer" -> UnwrappedTextFixer_fix(fixer)
    [] OTHER -> CssGradientFixer_fix(fixer)

\* const fixers = [new TextElementBorderFixer(..), new UnwrappedTextFixer(..), ..]
newFixers(errorMessage, content) ==
  [k \in 1..Len(FixerNames) |-> ErrorFixer(FixerNames[k], errorMessage, content)]

\* mutation of updateNextFixers: the later fixers keep the content they were built on
updateNextFixersSkipped(fs, i, updatedContent) == fs

\* nextFixer.htmlContent = updatedContent; nextFixer.dom = new JSDOM(updatedContent)
updateNextFixers(fs, i, updatedContent) ==
  [k \in 1..Len(fs) |->
     IF k > i THEN [fs[k] EXCEPT !.htmlContent = updatedContent,
                                 !.dom = JSDOM(updatedContent)]
     ELSE fs[k]]

\* the iteration after fixer.fix() has run; done is the fixer afterwards
fixerRan(fs, i, files, any, names, done) ==
  IF ~done.fixed
  THEN [fixers |-> [fs EXCEPT ![i] = done], file |-> files.file,
        backup |-> files.backup, hasAnyFix |-> any, applied |-> names]
  ELSE [fixers    |-> IF Len(names) + 1 < Len(fs)
                      THEN updateNextFixers([fs EXCEPT ![i] = done], i,
                                            serialize(done.dom))
                      ELSE [fs EXCEPT ![i] = done],
        file      |-> save(done, FALSE, files).file,
        backup    |-> save(done, FALSE, files).backup,
        hasAnyFix |-> TRUE,
        applied   |-> Append(names, done.name)]

\* the body of the for-loop for fixers[i]: [fixers, file, backup, hasAnyFix, applied]
fixerIteration(fs, i, files, any, names) ==
  IF ~canFix(fs[i])
  THEN [fixers |-> fs, file |-> files.file, backup |-> files.backup,
        hasAnyFix |-> any, applied |-> names]
  ELSE Val({fixerRan(fs, i, files, any, names,
                     [done EXCEPT !.matched = TRUE, !.runs = @ + 1]) :
              done \in {fix(fs[i])}})

\* tryConvertWithAutoFix calls autoFixHtml(htmlFile, lastError, {backup: true})
AutoFixBegin ==
  /\ pc = "autofix"
  /\ fixers' = newFixers(lastError, file)
  /\ idx' = 1
  /\ hasAnyFix' = FALSE
  /\ applied' = <<>>
  /\ calls' = Append(calls, "autoFixHtml")
  /\ pc' = "fixloop"
  /\ UNCHANGED <<file, backup, original, lastError, result, conv, passes,
                 page, slideData>>

FixerStep ==
  /\ pc = "fixloop"
  /\ idx <= Len(fixers)
  /\ \E r \in {fixerIteration(fixers, idx, [file |-> file, backup |-> backup],
                                hasAnyFix, applied)} :
         /\ fixers' = r.fixers
         /\ file' = r.file
         /\ backup' = r.backup
         /\ hasAnyFix' = r.hasAnyFix
         /\ applied' = r.applied
  /\ idx' = idx + 1
  /\ UNCHANGED <<original, pc, lastError, result, calls, conv, passes,
                 page, slideData>>

Failed(error) == <<[success |-> FALSE, method |-> "failed", error |-> error]>>

Succeeded(method) == <<[success |-> TRUE, method |-> method, error |-> <<>>]>>

\* mutation of AutoFixReturn: the conversion is tried again whatever was returned
AutoFixReturnRetries ==
  /\ pc = "fixloop"
  /\ idx > Len(fixers)
  /\ calls' = Append(calls, IF hasAnyFix THEN "fixed" ELSE "not fixed")
  /\ pc' = "retry"
  /\ UNCHANGED <<file, backup, original, lastError, fixers, idx, hasAnyFix,
                 applied, result, conv, passes,
                 page, slideData>>

\* autoFixHtml returns hasAnyFix; on false tryConvertWithAutoFix returns the failure
AutoFixReturn ==
  /\ pc = "fixloop"
  /\ idx > Len(fixers)
  /\ calls' = Append(calls, IF hasAnyFix THEN "fixed" ELSE "not fixed")
  /\ IF hasAnyFix
     THEN pc' = "retry" /\ result' = result
     ELSE pc' = "done" /\ result' = Failed(lastError)
  /\ UNCHANGED <<file, backup, original, lastError, fixers, idx, hasAnyFix,
                 applied, conv, passes,
                 page, slideData>>

\* a fixer's constructor cannot read the file that the browser could not load:
\* the exception is caught by tryConvertWithAutoFix
AutoFixThrows ==
  /\ pc = "autofix"
  /\ ~conv.rendered
  /\ calls' = Append(Append(calls, "autoFixHtml"), "threw")
  /\ pc' = "done"
  /\ result' = Failed(lastError)
  /\ UNCHANGED <<file, backup, original, lastError, fixers, idx, hasAnyFix,
                 applied, conv, passes,
                 page, slideData>>

---------------------------------------------------------------------------
(* tryConvertWithAutoFix *)

\* the first html2pptx(htmlFile, pptx)
ConvertDirect ==
  /\ pc = "start"
  /\ \E r \in {html2pptx(HtmlFile, in) : in \in RunInputs} :
           /\ conv' = r
           /\ IF r.threw
              THEN lastError' = r.message /\ pc' = "autofix" /\ result' = result
              ELSE lastError' = lastError /\ pc' = "done"
                   /\ result' = Succeeded("direct")
  /\ calls' = Append(calls, "html2pptx")
  /\ UNCHANGED <<file, backup, original, fixers, idx, hasAnyFix, applied, passes,
                 page, slideData>>

\* mutation of ConvertRetry: the failure returned is the one of the first attempt
ConvertRetryKeepsFirstError ==
  /\ pc = "retry"
  /\ \E r \in {html2pptx(HtmlFile, in) : in \in RunInputs} :
           /\ conv' = r
           /\ IF r.threw
              THEN lastError' = lastError /\ result' = Failed(lastError)
              ELSE lastError' = lastError /\ result' = Succeeded("auto_fix")
  /\ pc' = "done"
  /\ calls' = Append(calls, "html2pptx")
  /\ UNCHANGED <<file, backup, original, fixers, idx, hasAnyFix, applied, passes,
                 page, slideData>>

\* the html2pptx(htmlFile, pptx) after a repair
ConvertRetry ==
  /\ pc = "retry"
  /\ \E r \in {html2pptx(HtmlFile, in) : in \in RunInputs} :
           /\ conv' = r
           /\ IF r.threw
              THEN lastError' = r.message /\ result' = Failed(r.message)
              ELSE lastError' = lastError /\ result' = Succeeded("auto_fix")
  /\ pc' = "done"
  /\ calls' = Append(calls, "html2pptx")
  /\ UNCHANGED <<file, backup, original, fixers, idx, hasAnyFix, applied, passes,
                 page, slideData>>

Init ==
  /\ file \in {[markup |-> d, authored |-> TRUE] : d \in Documents}
  /\ backup = <<>>
  /\ original = file
  /\ pc = "start"
  /\ lastError = <<>>
  /\ fixers = <<>>
  /\ idx = 0
  /\ hasAnyFix = FALSE
  /\ applied = <<>>
  /\ result = <<>>
  /\ calls = <<>>
  /\ conv = NoConversion
  /\ passes = <<>>
  /\ page = <<>>
  /\ slideData = <<>>

Next ==
  \/ ConvertDirect
  \/ AutoFixBegin
  \/ AutoFixThrows
  \/ FixerStep
  \/ AutoFixReturn
  \/ ConvertRetry

Spec == Init /\ [][Next]_vars

\* every awaited call settles, so a started run goes on to its return statement
FairSpec == Spec /\ WF_vars(Next)

---------------------------------------------------------------------------
(* html2pptx on its own: every combination of the four sources of errors *)

FileNames == {<<"slide.html">>, <<"HTML">>}

\* the checks run only on a page that has loaded, the slide is written only when
\* they have found nothing
ConversionInputs ==
  {[NoInput EXCEPT !.overflow = o, !.dimension = d, !.textBox = t, !.slide = l] :
     o \in {<<>>, <<OverflowError>>},
     d \in {<<>>, <<DimensionError>>},
     t \in {<<>>, <<TextBoxError>>, <<TextBoxError, TextBoxError>>},
     l \in SlideErrorLists}
  \cup {[NoInput EXCEPT !.renderFailure = <<E_RENDER>>],
        [NoInput EXCEPT !.emitFailure = <<E_EMIT>>]}

InitHtml2pptx ==
  /\ file \in {[markup |-> [styles |-> <<>>, body |-> Body(<<P_box>>)],
                authored |-> TRUE]}
  /\ backup = <<>>
  /\ original = file
  /\ pc = "convert"
  /\ lastError = <<>>
  /\ fixers = <<>>
  /\ idx = 0
  /\ hasAnyFix = FALSE
  /\ applied = <<>>
  /\ result = <<>>
  /\ calls = <<>>
  /\ conv = NoConversion
  /\ passes = <<>>
  /\ page = <<>>
  /\ slideData = <<>>

ConvertSlide ==
  /\ pc = "convert"
  /\ \E htmlFile \in FileNames, in \in ConversionInputs :
       conv' = html2pptx(htmlFile, in)
  /\ pc' = "converted"
  /\ calls' = Append(calls, "html2pptx")
  /\ UNCHANGED <<file, backup, original, lastError, fixers, idx, hasAnyFix,
                 applied, result, passes,
                 page, slideData>>

SpecHtml2pptx == InitHtml2pptx /\ [][ConvertSlide]_vars

---------------------------------------------------------------------------
(* The gradient fixer run repeatedly over one file *)

\* .a { background: linear-gradient(red, blue) }      (no semicolon before the brace)
G_last ==
  <<".", "a", SP, "{", SP, "background", ":", SP, "linear-gradient", "(",
    "red", ",", SP, "blue", ")", SP, "}">>
\* .c { background: radial-gradient(circle, rgba(0,0,0,0.5), blue); }
G_radial ==
  <<".", "c", SP, "{", SP, "background", ":", SP, "radial-gradient", "(",
    "circle", ",", SP, "rgba", "(", "0,0,0,0.5", ")", ",", SP, "blue", ")", ";",
    SP, "}">>
\* .t { color: rgb(0,0,0); }
G_plain ==
  <<".", "t", SP, "{", SP, "color", ":", SP, "rgb", "(", "0,0,0", ")", ";", SP, "}">>
\* .o { background: linear-gradient(rgb(0,0,0 }       (parentheses left open)
G_open ==
  <<".", "o", SP, "{", SP, "background", ":", SP, "linear-gradient", "(",
    "rgb", "(", "0,0,0", SP, "}">>
\* .n { background: linear-gradient(to right, transparent, transparent); }
G_none ==
  <<".", "n", SP, "{", SP, "background", ":", SP, "linear-gradient", "(",
    "to", SP, "right", ",", SP, "transparent", ",", SP, "transparent", ")", ";",
    SP, "}">>

RuleLib == {S_gradient, G_last, G_radial, S_image, G_plain, G_open, G_none}

Stylesheets == {Concat(rules) : rules \in SeqsUpTo(RuleLib, MaxPieces) \ {<<>>}}

InitGradient ==
  /\ file \in {[markup |-> [styles |-> <<css>>, body |-> Body(<<P_box>>)],
                authored |-> TRUE] : css \in Stylesheets}
  /\ backup = <<>>
  /\ original = file
  /\ pc = "gradient"
  /\ lastError = <<>>
  /\ fixers = <<>>
  /\ idx = 0
  /\ hasAnyFix = FALSE
  /\ applied = <<>>
  /\ result = <<>>
  /\ calls = <<>>
  /\ conv = NoConversion
  /\ passes = <<>>
  /\ page = <<>>
  /\ slideData = <<>>

\* new CssGradientFixer(errorMessage, htmlPath); fixer.fix(); fixer.save(false)
GradientPass ==
  /\ pc = "gradient"
  /\ Len(passes) < MaxPasses
  /\ \E done \in {CssGradientFixer_fix(ErrorFixer("CssGradientFixer", <<>>, file))} :
       /\ \E saved \in {save(done, FALSE, [file |-> file, backup |-> backup])} :
            file' = saved.file /\ backup' = saved.backup
       /\ passes' = Append(passes, [before   |-> file.markup.styles[1],
                                    after    |-> done.dom.styles[1],
                                    fixed    |-> done.fixed])
  /\ UNCHANGED <<original, pc, lastError, fixers, idx, hasAnyFix, applied, result,
                 calls, conv,
                 page, slideData>>

SpecGradient == InitGradient /\ [][GradientPass]_vars

---------------------------------------------------------------------------
(* Claims on tryConvertWithAutoFix and autoFixHtml *)

CallCount(name) == Cardinality({k \in 1..Len(calls) : calls[k] = name})

\* the for-loop of autoFixHtml has gone through every fixer
AutoFixDone == Len(fixers) = Len(FixerNames) /\ idx > Len(fixers)

\* autoFixHtml has left its for-loop and is about to return
AutoFixEnds == AutoFixDone /\ pc = "fixloop"

C1_Bounded ==
  /\ CallCount("html2pptx") <= 2
  /\ CallCount("autoFixHtml") <= 1
  /\ \A k \in 2..Len(calls) :
       calls[k] = "html2pptx" =>
         /\ calls[k - 1] = "fixed"
         /\ \E j \in 1..(k - 1) : calls[j] = "autoFixHtml"
  /\ (pc = "done") <=> (Len(result) = 1)
  /\ Len(result) <= 1

\* C1: in one call of tryConvertWithAutoFix, html2pptx is invoked at most twice
\* and autoFixHtml at most once, the second html2pptx comes only after
\* autoFixHtml returned true, and the call always ends by returning a result.
C1_ConvertRepairConvert == [](C1_Bounded) /\ <>(pc = "done" /\ Len(result) = 1)

C1_Witness ==
  /\ pc = "done"
  /\ calls = <<"html2pptx", "autoFixHtml", "fixed", "html2pptx">>
  /\ result[1].method = "auto_fix"

\* the file content after all fixers, each working on the content the one before
\* it has left
ChainedContent(content, errorMessage) ==
  LET after[k \in 0..Len(FixerNames)] ==
        IF k = 0 THEN content
        ELSE Val({Val({IF ~canFix(fixer) THEN before
                       ELSE Val({IF done.fixed THEN serialize(done.dom) ELSE before :
                                   done \in {fix(fixer)}}) :
                         fixer \in {ErrorFixer(FixerNames[k], errorMessage, before)}}) :
                    before \in {after[k - 1]}})
  IN  after[Len(FixerNames)]

\* the last fixer before fixer k that succeeded, 0 when none
LastFixedBefore(k) ==
  IF \E j \in 1..(k - 1) : fixers[j].fixed
  THEN Max({j \in 1..(k - 1) : fixers[j].fixed}) ELSE 0

\* C2: the fixers are tried in the order text-paint, unwrapped-text, gradient;
\* every fixer whose canFix holds is run, each at most once; each fixer works on
\* the markup serialized by the most recent earlier fixer that succeeded, and the
\* file at the end of the call holds the changes of every fixer that succeeded.
C2_FixersChained ==
  AutoFixEnds =>
    /\ [k \in 1..Len(fixers) |-> fixers[k].name] = FixerNames
    /\ \A k \in 1..Len(fixers) :
         /\ fixers[k].matched = canFix(fixers[k])
         /\ fixers[k].runs = IF fixers[k].matched THEN 1 ELSE 0
         /\ fixers[k].htmlContent =
              IF LastFixedBefore(k) = 0 THEN original
              ELSE serialize(fixers[LastFixedBefore(k)].dom)
    /\ applied = LET Fixed(n) == \E k \in 1..Len(fixers) :
                                   fixers[k].name = n /\ fixers[k].fixed
                 IN  SelectSeq(FixerNames, Fixed)
    /\ file = ChainedContent(original, fixers[1].errorMessage)

C2_Witness ==
  /\ AutoFixEnds
  /\ applied = FixerNames
  /\ \A k \in 1..Len(fixers) : fixers[k].dom # JSDOM(fixers[k].htmlContent)

\* the fixer has changed the document it was given
Changed(fixer) == fixer.runs > 0 /\ fixer.dom # JSDOM(fixer.htmlContent)

\* C3: autoFixHtml returns true if and only if at least one fixer changed the
\* document; when no fixer matches, or every matching fixer changes nothing, it
\* returns false, raises nothing and leaves the file on disk as it was.
C3_TrueIffChanged ==
  AutoFixDone =>
    /\ hasAnyFix <=> \E k \in 1..Len(fixers) : Changed(fixers[k])
    /\ \A k \in 1..Len(calls) :
         /\ calls[k] = "fixed" => hasAnyFix
         /\ calls[k] = "not fixed" => ~hasAnyFix
         /\ calls[k] # "threw"
    /\ ~hasAnyFix => file = original /\ file.authored

C3_Witness ==
  /\ AutoFixDone
  /\ calls = <<"html2pptx", "autoFixHtml", "not fixed">>
  /\ \E k \in 1..Len(fixers) : fixers[k].runs = 1
  /\ file = original

\* C4: when autoFixHtml is called with backup: true, as tryConvertWithAutoFix
\* calls it, and a fixer changes the document, a backup holding the original
\* content exists after the call, and a backup is never overwritten.
C4_BackupKept ==
  /\ (AutoFixDone /\ hasAnyFix) => backup = <<original>>
  /\ backup # <<>> => backup = <<original>>

---------------------------------------------------------------------------
(* Claims on html2pptx *)

\* the errors of the four checks in the order overflow, layout, bottom margin,
\* extraction
OrderedErrors(in) == in.overflow \o in.dimension \o in.textBox \o in.slide

\* the numbered summary of a list of errors
Summary(errors) ==
  <<E_MULTIPLE, "\n">>
  \o JoinWith([k \in 1..Len(errors) |-> <<"  ", Numeral[k], ". ">> \o errors[k]],
              <<"\n">>)

\* the single error, or the summary of several
Reported(errors) == IF Len(errors) = 1 THEN errors[1] ELSE Summary(errors)

---------------------------------------------------------------------------
(* Claims on the fixers *)

Range(seq) == {seq[k] : k \in 1..Len(seq)}

\* the fixer of this name has run in autoFixHtml
HasRun(k, name) == k \in 1..Len(fixers) /\ fixers[k].name = name /\ fixers[k].runs = 1

\* C6: after the unwrapped-text fixer has run, no div of the document has a
\* direct child text node with non-whitespace content, nested divs included;
\* <div class="content">Hello</div> has become
\* <div class="content"><p>Hello</p></div>.
C6_NoUnwrappedTextLeft ==
  \A k \in 1..Len(fixers) :
    HasRun(k, "UnwrappedTextFixer") =>
      /\ \A path \in Range(querySelectorAll(fixers[k].dom, "div")) :
           ~hasDirectTextNode(NodeAt(fixers[k].dom.body, path))
      /\ \A path \in Range(querySelectorAll(JSDOM(fixers[k].htmlContent), "div")) :
           NodeAt(JSDOM(fixers[k].htmlContent).body, path) = D_content =>
             NodeAt(fixers[k].dom.body, path) =
               Elem("div", <<Attr("class", <<"content">>)>>,
                    <<Elem("p", <<>>, <<TextNode(<<"Hello">>)>>)>>)

\* the text elements the text-paint fixer has to repair in the document: the
\* elements of a tag named in the error whose class has a rule with container
\* declarations; [path, tag, cn, style, sep]
Offending(document, errorMessage) ==
  {o \in {[path  |-> path, tag |-> tag,
           cn    |-> className(NodeAt(document.body, path)),
           style |-> findStyleForClass(document,
                                       className(NodeAt(document.body, path)))] :
            tag \in Range(tagNamesOf(errorMessage)),
            path \in UNION {Range(querySelectorAll(document, t)) :
                              t \in Range(tagNamesOf(errorMessage))}} :
     /\ NodeAt(document.body, o.path).tag = o.tag
     /\ o.cn # <<>>
     /\ o.style # 0
     /\ Trim(separateStyles(document.styles[o.style], o.cn).containerStyles) # <<>>}

\* the rule  selector { declarations; }  as updateStyles writes it
Rule(selector, declarations) ==
  selector \o <<SP, "{", GAP>> \o declarations \o <<";", GAP, "}">>

\* C7: for every offending tag named in the error, the text-paint fixer rewrites
\* the rule of the element's class as  .class { container declarations }  and
\* .class tag { text declarations }  and replaces the element by a div of that
\* class holding the element without its class, with its other attributes and
\* its content.
C7_RuleSplitForEveryTag ==
  \A k \in 1..Len(fixers) :
    HasRun(k, "TextElementBorderFixer") =>
      \A o \in Offending(JSDOM(fixers[k].htmlContent), fixers[k].errorMessage) :
        LET before  == JSDOM(fixers[k].htmlContent)
            element == NodeAt(before.body, o.path)
            sep     == separateStyles(before.styles[o.style], o.cn)
            after   == fixers[k].dom
        IN  /\ Includes(after.styles[o.style],
                        Rule(<<".">> \o o.cn, sep.containerStyles))
            /\ sep.textStyles # <<>> =>
                 Includes(after.styles[o.style],
                          Rule(<<".">> \o o.cn \o <<SP, o.tag>>, sep.textStyles))
            /\ NodeAt(after.body, o.path) =
                 Elem("div", <<Attr("class", o.cn)>>,
                      <<Elem(o.tag, otherAttributes(element), element.kids)>>)

\* the declarations of an inline style attribute that only a div may carry
InlineContainerStyles(el) ==
  {d \in UNION {Range(styleLinesOf(el.attrs[a].value)) :
                  a \in {a \in 1..Len(el.attrs) : el.attrs[a].name = "style"}} :
     isContainerStyle(propOf(d))}

\* C8: after a successful fix of the text-paint fixer, the border, background
\* and shadow declarations are on the wrapping div and none of them applies to
\* the text element any more, a declaration of its style attribute included.
C8_NoPaintOnTextElement ==
  \A k \in 1..Len(fixers) :
    (HasRun(k, "TextElementBorderFixer") /\ fixers[k].fixed) =>
      \A o \in Offending(JSDOM(fixers[k].htmlContent), fixers[k].errorMessage) :
        LET wrapper == NodeAt(fixers[k].dom.body, o.path)
        IN  /\ wrapper.tag = "div"
            /\ Len(wrapper.kids) = 1
            /\ wrapper.kids[1].tag = o.tag
            /\ className(wrapper.kids[1]) = <<>>
            /\ InlineContainerStyles(wrapper.kids[1]) = {}

---------------------------------------------------------------------------
(* Claims on the gradient fixer *)

\* the end of the declaration that holds token i: the index of its ";" or of the
\* "}" that closes the rule
DeclarationEnd(s, i) ==
  Min({k \in i..Len(s) : s[k] \in {";", "}"}} \cup {Len(s) + 1})

\* the index of the ")" that ends the value opened at token j, when nothing but
\* blanks follows it in the declaration; 0 when there is none
ValueEnd(s, j) ==
  Val({Val({IF closes # {} /\ Trim(SubSeq(s, Max(closes \cup {1}) + 1, e - 1)) = <<>>
            THEN Max(closes) ELSE 0 :
              closes \in {{k \in (j + 1)..(e - 1) : s[k] = ")"}}}) :
         e \in {DeclarationEnd(s, j)}})

\* a declaration  background: linear-gradient(...)  or  radial-gradient(...)  at
\* token i: the index of its last token, 0 when there is none
GradientDeclaration(s, i) ==
  IF At(s, i) = "background" /\ At(s, i + 1) = ":"
  THEN Val({IF At(s, j) \in {"linear-gradient", "radial-gradient"}
               /\ At(s, j + 1) = "("
            THEN ValueEnd(s, j + 1) ELSE 0 : j \in {SkipSpace(s, i + 2)}})
  ELSE 0

\* a declaration  background-image: url(...)  at token i: the index of its last
\* token, 0 when there is none
ImageDeclaration(s, i) ==
  IF Slice(s, i, i + 3) = <<"background", "-", "image", ":">>
  THEN Val({IF At(s, j) = "url" /\ At(s, j + 1) = "("
            THEN ValueEnd(s, j + 1) ELSE 0 : j \in {SkipSpace(s, i + 4)}})
  ELSE 0

\* the stylesheet with every gradient declaration replaced by its first colour
\* and every background image by the light-gray fill
EveryDeclarationReplaced(cssContent) ==
  Val({LET out[i \in 1..(Len(s) + 1)] ==
             Val({IF d = {} THEN SubSeq(s, i, Len(s))
                  ELSE SubSeq(s, i, Min(d) - 1)
                       \o (IF GradientDeclaration(s, Min(d)) # 0
                           THEN <<"background", ":", SP>>
                                  \o extractFirstColor(
                                       SubSeq(s, Min(d), GradientDeclaration(s, Min(d))))
                                  \o out[GradientDeclaration(s, Min(d)) + 1]
                           ELSE <<"background", "-", "color", ":", SP, "#f5f5f5">>
                                  \o out[ImageDeclaration(s, Min(d)) + 1]) :
                    d \in {{k \in i..Len(s) : \/ GradientDeclaration(s, k) # 0
                                               \/ ImageDeclaration(s, k) # 0}}})
       IN  out[1] : s \in {cssContent}})

\* C9: the gradient fixer replaces every  background: linear-gradient(...)  and
\* background: radial-gradient(...)  declaration of a stylesheet by
\* background: <first colour>  (a hex literal, else an rgb/rgba literal, else a
\* colour name, else #000000) and every  background-image: url(...)  declaration
\* by the light-gray fill.
C9_EveryDeclarationReplaced ==
  \A k \in 1..Len(passes) :
    passes[k].after = EveryDeclarationReplaced(passes[k].before)

\* C10: the gradient fixer is idempotent: a second run on the markup of the
\* first run changes nothing and reports no change.
C10_SecondPassChangesNothing ==
  \A k \in 2..Len(passes) :
    /\ passes[k].after = passes[k].before
    /\ ~passes[k].fixed

---------------------------------------------------------------------------
(* extractSlideData: the helpers that run inside the page *)

\* the variables of tryConvertWithAutoFix and autoFixHtml, which an extraction
\* leaves alone
run == <<file, backup, original, pc, lastError, fixers, idx, hasAnyFix,
         applied, result, calls, conv, passes>>

\* no conversion is running; pc names what is about to be extracted
NoRun(at) ==
  /\ file = [markup |-> [styles |-> <<>>, body |-> Body(<<P_box>>)],
             authored |-> TRUE]
  /\ backup = <<>>
  /\ original = file
  /\ pc = at
  /\ lastError = <<>>
  /\ fixers = <<>>
  /\ idx = 0
  /\ hasAnyFix = FALSE
  /\ applied = <<>>
  /\ result = <<>>
  /\ calls = <<>>
  /\ conv = NoConversion
  /\ passes = <<>>

\* a value that a JavaScript object may lack: <<>> for null / undefined / no
\* field, <<v>> for the value v
Null == <<>>

Some(v) == <<v>>

Digits == <<"0", "1", "2", "3", "4", "5", "6", "7", "8", "9">>

HexDigits ==
  <<"0", "1", "2", "3", "4", "5", "6", "7", "8", "9", "a", "b", "c", "d", "e", "f">>

IsDigit(t) == \E d \in 1..Len(Digits) : Digits[d] = t

DigitValue(t) == (CHOOSE d \in 1..Len(Digits) : Digits[d] = t) - 1

\* \d+ at i: the index of the last digit of the run that starts at i, 0 when
\* there is no digit at i
digitsEnd(s, i) ==
  IF ~IsDigit(At(s, i)) THEN 0
  ELSE Min({k \in i..Len(s) : ~IsDigit(At(s, k + 1))})

\* parseInt of a run of digits
parseInt(ds) ==
  LET value[k \in 0..Len(ds)] ==
        IF k = 0 THEN 0 ELSE value[k - 1] * 10 + DigitValue(ds[k])
  IN  value[Len(ds)]

\* Number.prototype.toString(16)
RECURSIVE toString16(_)
toString16(n) ==
  IF n < 16 THEN <<HexDigits[n + 1]>>
  ELSE toString16(n \div 16) \o <<HexDigits[(n % 16) + 1]>>

\* String.prototype.padStart(2, "0")
padStart2(s) == IF Len(s) < 2 THEN <<"0">> \o s ELSE s

\* the decimal digits of a number
RECURSIVE decimal(_)
decimal(n) ==
  IF n < 10 THEN <<Digits[n + 1]>> ELSE decimal(n \div 10) \o <<Digits[(n % 10) + 1]>>

\* "rgba(0, 0, 0, 0)"
TransparentBlack ==
  <<"rgba", "(", "0", ",", SP, "0", ",", SP, "0", ",", SP, "0", ")">>

White == <<"F", "F", "F", "F", "F", "F">>

\* /rgba?\((\d+),\s*(\d+),\s*(\d+)/ tried at token k: the three digit runs and
\* the index of the last token matched, or <<>> when it does not match there.
\* names: the function names the expression accepts
channelsAt(s, k, names) ==
  IF ~(At(s, k) \in names /\ At(s, k + 1) = "(") THEN <<>>
  ELSE Val({IF r = 0 \/ At(s, r + 1) # "," THEN <<>>
            ELSE Val({IF g = 0 \/ At(s, g + 1) # "," THEN <<>>
                      ELSE Val({IF b = 0 THEN <<>>
                                ELSE <<[r   |-> SubSeq(s, k + 2, r),
                                        g   |-> SubSeq(s, SkipSpace(s, r + 2), g),
                                        b   |-> SubSeq(s, SkipSpace(s, g + 2), b),
                                        end |-> b]>> :
                                  b \in {digitsEnd(s, SkipSpace(s, g + 2))}}) :
                        g \in {digitsEnd(s, SkipSpace(s, r + 2))}}) :
              r \in {digitsEnd(s, k + 2)}})

\* String.prototype.match of that expression: the leftmost match, <<>> when none
channelsMatch(s, names) ==
  Val({IF at = {} THEN <<>> ELSE channelsAt(s, Min(at), names) :
         at \in {{k \in 1..Len(s) : channelsAt(s, k, names) # <<>>}}})

rgbToHex(rgbStr) ==
  IF rgbStr = TransparentBlack \/ rgbStr = <<"transparent">> THEN White
  ELSE Val({IF match = <<>> THEN White
            ELSE padStart2(toString16(parseInt(match[1].r)))
                 \o padStart2(toString16(parseInt(match[1].g)))
                 \o padStart2(toString16(parseInt(match[1].b))) :
              match \in {channelsMatch(rgbStr, {"rgb", "rgba"})}})

\* [\d.]+ at i: the index of its last token, 0 when there is none
numberEnd(s, i) ==
  IF ~(IsDigit(At(s, i)) \/ At(s, i) = ".") THEN 0
  ELSE Min({k \in i..Len(s) : ~(IsDigit(At(s, k + 1)) \/ At(s, k + 1) = ".")})

\* parseFloat of digits with an optional fraction, in thousandths
parseFloat1000(n) ==
  Val({IF dot = 0 THEN parseInt(n) * 1000
       ELSE parseInt(SubSeq(n, 1, dot - 1)) * 1000
            + parseInt(Slice(SubSeq(n, dot + 1, Len(n)) \o <<"0", "0", "0">>, 1, 3)) :
         dot \in {IndexOfFrom(n, ".", 1)}})

\* Math.round of q / 10 for q >= 0
roundTenth(q) == (q + 5) \div 10

\* /rgba\((\d+),\s*(\d+),\s*(\d+),\s*([\d.]+)\)/ tried at token k: <<alpha in
\* thousandths>>, or <<>> when it does not match there
alphaAt(s, k) ==
  Val({IF match = <<>> \/ At(s, match[1].end + 1) # "," THEN <<>>
       ELSE Val({IF a = 0 \/ At(s, a + 1) # ")" THEN <<>>
                 ELSE <<parseFloat1000(SubSeq(s, SkipSpace(s, match[1].end + 2), a))>> :
                   a \in {numberEnd(s, SkipSpace(s, match[1].end + 2))}}) :
         match \in {channelsAt(s, k, {"rgba"})}})

\* Math.round((1 - alpha) * 100) of the leftmost match, null when there is none
extractAlpha(rgbStr) ==
  Val({IF at = {} THEN Null
       ELSE Some(roundTenth(1000 - alphaAt(rgbStr, Min(at))[1])) :
         at \in {{k \in 1..Len(rgbStr) : alphaAt(rgbStr, k) # <<>>}}})

---------------------------------------------------------------------------
(* parseInlineFormatting *)

\* hundredths of a point: parseFloat(pxStr) * PT_PER_PX for a whole number of px
PT_PER_PX_100 == 75

pxToPoints(px) == px * PT_PER_PX_100

SINGLE_WEIGHT_FONTS == {<<"impact">>}

\* the words of the texts, with their upper-case, lower-case and capitalized forms
Cased ==
  {[word |-> "Hello", upper |-> "HELLO", lower |-> "hello", cap |-> "Hello"],
   [word |-> "bold", upper |-> "BOLD", lower |-> "bold", cap |-> "Bold"],
   [word |-> "world", upper |-> "WORLD", lower |-> "world", cap |-> "World"],
   [word |-> "Item", upper |-> "ITEM", lower |-> "item", cap |-> "Item"],
   [word |-> "one", upper |-> "ONE", lower |-> "one", cap |-> "One"],
   [word |-> "two", upper |-> "TWO", lower |-> "two", cap |-> "Two"],
   [word |-> "Impact", upper |-> "IMPACT", lower |-> "impact", cap |-> "Impact"],
   [word |-> "Arial", upper |-> "ARIAL", lower |-> "arial", cap |-> "Arial"],
   [word |-> "SPAN", upper |-> "SPAN", lower |-> "span", cap |-> "SPAN"],
   [word |-> "B", upper |-> "B", lower |-> "b", cap |-> "B"],
   [word |-> "I", upper |-> "I", lower |-> "i", cap |-> "I"],
   [word |-> "A", upper |-> "A", lower |-> "a", cap |-> "A"],
   [word |-> "P", upper |-> "P", lower |-> "p", cap |-> "P"],
   [word |-> "H1", upper |-> "H1", lower |-> "h1", cap |-> "H1"],
   [word |-> "H2", upper |-> "H2", lower |-> "h2", cap |-> "H2"],
   [word |-> "H3", upper |-> "H3", lower |-> "h3", cap |-> "H3"],
   [word |-> "H4", upper |-> "H4", lower |-> "h4", cap |-> "H4"],
   [word |-> "H5", upper |-> "H5", lower |-> "h5", cap |-> "H5"],
   [word |-> "H6", upper |-> "H6", lower |-> "h6", cap |-> "H6"],
   [word |-> "UL", upper |-> "UL", lower |-> "ul", cap |-> "UL"],
   [word |-> "OL", upper |-> "OL", lower |-> "ol", cap |-> "OL"],
   [word |-> "LI", upper |-> "LI", lower |-> "li", cap |-> "LI"],
   [word |-> "DIV", upper |-> "DIV", lower |-> "div", cap |-> "DIV"]}

casedToken(t, form) ==
  IF \E c \in Cased : c.word = t
  THEN Val({CASE form = "upper" -> c.upper
              [] form = "lower" -> c.lower
              [] OTHER -> c.cap : c \in {c \in Cased : c.word = t}})
  ELSE t

toLowerCase(s) == [k \in 1..Len(s) |-> casedToken(s[k], "lower")]

applyTextTransform(text, textTransform) ==
  CASE textTransform = "uppercase" -> [k \in 1..Len(text) |-> casedToken(text[k], "upper")]
    [] textTransform = "lowercase" -> [k \in 1..Len(text) |-> casedToken(text[k], "lower")]
    [] textTransform = "capitalize" -> [k \in 1..Len(text) |-> casedToken(text[k], "cap")]
    [] OTHER -> text

\* fontFamily.toLowerCase().replace(/['"]/g, "").split(",")[0].trim()
shouldSkipBold(fontFamily) ==
  /\ fontFamily # <<>>
  /\ \E quoted \in {toLowerCase(fontFamily)} :
       \E plain \in {SelectSeq(quoted, LAMBDA t : t \notin {"'", "\""})} :
         Trim(SplitOn(plain, ",")[1]) \in SINGLE_WEIGHT_FONTS

\* text.replace(/\s+/g, " ")
collapseSpace(text) ==
  Val({LET keep == {k \in 1..Len(t) : ~(IsSpace(t[k]) /\ IsSpace(At(t, k - 1)))}
           order == Ascending(keep)
       IN  [k \in 1..Len(order) |-> IF IsSpace(t[order[k]]) THEN SP ELSE t[order[k]]] :
         t \in {text}})

\* text.replace(/^\s+/, "")
trimStart(text) == SubSeq(text, SkipSpace(text, 1), Len(text))

\* text.replace(/\s+$/, "")
trimEnd(text) ==
  Val({Val({IF c = {} THEN <<>> ELSE SubSeq(t, 1, Max(c)) :
              c \in {{k \in 1..Len(t) : ~IsSpace(t[k])}}}) : t \in {text}})

\* "rgb(0, 0, 0)"
Black == <<"rgb", "(", "0", ",", SP, "0", ",", SP, "0", ")">>

\* window.getComputedStyle(el): lengths in px, colours and other strings as
\* tokens; boxShadow is <<>> for "none"
ComputedStyle ==
  [fontWeight |-> 400, fontFamily |-> <<"Arial">>, fontStyle |-> "normal",
   textDecoration |-> <<"none">>, color |-> Black, fontSize |-> 16,
   textTransform |-> "none", textAlign |-> "start", lineHeight |-> <<>>,
   marginLeft |-> 0, marginRight |-> 0, marginTop |-> 0, marginBottom |-> 0,
   paddingLeft |-> 0, paddingRight |-> 0, paddingTop |-> 0, paddingBottom |-> 0,
   backgroundColor |-> TransparentBlack, backgroundImage |-> <<"none">>,
   borderTopWidth |-> 0, borderRightWidth |-> 0, borderBottomWidth |-> 0,
   borderLeftWidth |-> 0, borderColor |-> Black, borderRadius |-> <<"0", "px">>,
   boxShadow |-> <<>>, transform |-> <<"none">>, writingMode |-> "horizontal-tb"]

\* el.getBoundingClientRect(), in px
Rect(left, top, width, height) ==
  [left |-> left, top |-> top, width |-> width, height |-> height]

\* the nodes of the page: text, comment and element nodes
Text(data) ==
  [tagName |-> "#text", data |-> data, computed |-> ComputedStyle,
   childNodes |-> <<>>, rect |-> Rect(0, 0, 0, 0), id |-> <<>>, classList |-> {},
   offset |-> [width |-> 0, height |-> 0], src |-> <<>>]

Comment ==
  [tagName |-> "#comment", data |-> <<>>, computed |-> ComputedStyle,
   childNodes |-> <<>>, rect |-> Rect(0, 0, 0, 0), id |-> <<>>, classList |-> {},
   offset |-> [width |-> 0, height |-> 0], src |-> <<>>]

Element(tagName, computed, childNodes) ==
  [tagName |-> tagName, data |-> <<>>, computed |-> computed,
   childNodes |-> childNodes, rect |-> Rect(96, 96, 192, 48), id |-> <<>>,
   classList |-> {}, offset |-> [width |-> 192, height |-> 48], src |-> <<>>]

Br == Element("BR", ComputedStyle, <<>>)

RECURSIVE textContent(_)
textContent(node) ==
  IF node.tagName = "#text" THEN node.data
  ELSE IF node.tagName = "#comment" THEN <<>>
  ELSE Concat([k \in 1..Len(node.childNodes) |-> textContent(node.childNodes[k])])

\* the options of a run: a field is Null when the object does not have it
NoOptions ==
  [bold |-> Null, italic |-> Null, underline |-> Null, color |-> Null,
   transparency |-> Null, fontSize |-> Null, breakLine |-> Null, bullet |-> Null]

InlineTags == {"SPAN", "B", "STRONG", "I", "EM", "U"}

E_INLINE_ELEMENT == "Inline element"
E_MARGIN_UNSUPPORTED == "is not supported in PPT. Remove the margin of inline elements."

MarginError(tagName, side) ==
  <<E_INLINE_ELEMENT, SP, "<">> \o toLowerCase(<<tagName>>)
  \o <<">", SP, "margin", "-", side, SP, E_MARGIN_UNSUPPORTED>>

\* node.nodeType === Node.TEXT_NODE || node.tagName === "BR"
isTextOrBr(node) == node.tagName \in {"#text", "BR"}

\* const options = { ...baseOptions } and the fields the computed style sets
inlineOptions(baseOptions, computed) ==
  [baseOptions EXCEPT
     !.bold = IF computed.fontWeight >= 600 /\ ~shouldSkipBold(computed.fontFamily)
              THEN Some(TRUE) ELSE @,
     !.italic = IF computed.fontStyle = "italic" THEN Some(TRUE) ELSE @,
     !.underline = IF Includes(computed.textDecoration, <<"underline">>)
                   THEN Some(TRUE) ELSE @,
     !.color = IF computed.color # Black THEN Some(rgbToHex(computed.color)) ELSE @,
     !.transparency = IF computed.color # Black /\ extractAlpha(computed.color) # Null
                      THEN extractAlpha(computed.color) ELSE @,
     !.fontSize = Some(pxToPoints(computed.fontSize))]

\* the four margin checks, in the order left, right, top, bottom
marginErrors(node) ==
  (IF node.computed.marginLeft > 0 THEN <<MarginError(node.tagName, "left")>> ELSE <<>>)
  \o (IF node.computed.marginRight > 0 THEN <<MarginError(node.tagName, "right")>>
      ELSE <<>>)
  \o (IF node.computed.marginTop > 0 THEN <<MarginError(node.tagName, "top")>> ELSE <<>>)
  \o (IF node.computed.marginBottom > 0 THEN <<MarginError(node.tagName, "bottom")>>
      ELSE <<>>)

\* the text branch of the forEach body: the runs array afterwards
pushText(runs, node, prevNodeIsText, baseOptions, baseTextTransform) ==
  Val({IF prevNodeIsText /\ Len(runs) > 0
       THEN [runs EXCEPT ![Len(runs)].text = @ \o text]
       ELSE Append(runs, [text |-> text, options |-> baseOptions]) :
         text \in {IF node.tagName = "BR" THEN <<GAP>>
                   ELSE applyTextTransform(collapseSpace(node.data),
                                           baseTextTransform)}})

\* the trims after the forEach: leading space of the first run, trailing space
\* of the last
trimEnds(runs) ==
  IF Len(runs) = 0 THEN runs
  ELSE Val({[first EXCEPT ![Len(first)].text = trimEnd(@)] :
              first \in {[runs EXCEPT ![1].text = trimStart(@)]}})

\* one call on the shared runs array and the errors array; st = [runs, errors].
\* The array a nested call returns is dropped by its caller: what the nested
\* call leaves behind is what it did to the shared array.
RECURSIVE parseChildNodes(_, _, _, _)
parseChildNodes(element, baseOptions, st, baseTextTransform) ==
  Val({LET each[i \in 0..Len(nodes)] ==
             IF i = 0 THEN st
             ELSE Val({IF isTextOrBr(node)
                       THEN [before EXCEPT
                               !.runs = pushText(@, node,
                                                 i > 1 /\ isTextOrBr(nodes[i - 1]),
                                                 baseOptions, baseTextTransform)]
                       ELSE IF /\ node.tagName # "#comment"
                               /\ Trim(textContent(node)) # <<>>
                               /\ node.tagName \in InlineTags
                       THEN parseChildNodes(
                              node, inlineOptions(baseOptions, node.computed),
                              [before EXCEPT !.errors = @ \o marginErrors(node)],
                              IF node.computed.textTransform # "none"
                              THEN node.computed.textTransform
                              ELSE baseTextTransform)
                       ELSE before :
                         before \in {each[i - 1]}, node \in {nodes[i]}})
       IN  [each[Len(nodes)] EXCEPT !.runs = trimEnds(@)] :
         nodes \in {element.childNodes}})

\* what the outermost call returns and the errors it has pushed
parseInlineFormatting(element, baseOptions, baseTextTransform) ==
  Val({[runs   |-> SelectSeq(st.runs, LAMBDA r : Len(r.text) > 0),
        errors |-> st.errors] :
         st \in {parseChildNodes(element, baseOptions, [runs |-> <<>>, errors |-> <<>>],
                                 baseTextTransform)}})

---------------------------------------------------------------------------
(* extractSlideData: units, rotation, position *)

PX_PER_IN == 96

\* lengths in inches are kept as whole numbers of 1/14400 inch, so that px / 96,
\* pt / 72 and their halves are exact
INCH == 14400

pxToInch(px) == (px * INCH) \div PX_PER_IN

\* points (in hundredths) / 72, in inches
ptToInch(pt) == (pt * INCH) \div 7200

\* parseFloat of an optional "-" and a decimal number, in thousandths
parseSigned1000(n) ==
  IF At(n, 1) = "-" THEN 0 - parseFloat1000(Tail(n)) ELSE parseFloat1000(n)

\* /rotate\((-?\d+(?:\.\d+)?)deg\)/ tried at token k: <<the number matched>>, or
\* <<>> when it does not match there
rotateAt(s, k) ==
  IF ~(At(s, k) = "rotate" /\ At(s, k + 1) = "(") THEN <<>>
  ELSE Val({Val({IF int = 0 THEN <<>>
                 ELSE Val({IF At(s, end + 1) = "deg" /\ At(s, end + 2) = ")"
                           THEN <<SubSeq(s, k + 2, end)>> ELSE <<>> :
                             end \in {IF At(s, int + 1) = "."
                                         /\ digitsEnd(s, int + 2) # 0
                                      THEN digitsEnd(s, int + 2) ELSE int}}) :
                   int \in {digitsEnd(s, from)}}) :
              from \in {IF At(s, k + 2) = "-" THEN k + 3 ELSE k + 2}})

\* Math.round(Math.atan2(b, a) * (180 / Math.PI)) for the matrices of the
\* rotations by a multiple of 45 degrees; a and b in thousandths
atan2Degrees(b, a) ==
  CASE a > 0 /\ b = 0 -> 0
    [] a > 0 /\ b = a -> 45
    [] a = 0 /\ b > 0 -> 90
    [] a < 0 /\ b = 0 - a -> 135
    [] a < 0 /\ b = 0 -> 180
    [] a < 0 /\ b = a -> 0 - 135
    [] a = 0 /\ b < 0 -> 0 - 90
    [] a > 0 /\ b = 0 - a -> 0 - 45
    [] OTHER -> 0

\* /matrix\(([^)]+)\)/ and split(",").map(parseFloat): the rounded angle of the
\* leftmost match in thousandths of a degree, <<>> when there is no match
matrixAngle(s) ==
  Val({IF at = {} THEN <<>>
       ELSE Val({<<1000 * atan2Degrees(parseSigned1000(Trim(values[2])),
                                       parseSigned1000(Trim(values[1])))>> :
                   values \in {SplitOn(SubSeq(s, Min(at) + 2,
                                              IndexOfFrom(s, ")", Min(at) + 2) - 1),
                                       ",")}}) :
         at \in {{k \in 1..Len(s) : /\ s[k] = "matrix" /\ At(s, k + 1) = "("
                                    /\ IndexOfFrom(s, ")", k + 2) > k + 2}}})

\* no reduction to a full turn
remainderOfNone(a, n) == a

\* JavaScript %: the remainder has the sign of the dividend
remainder(a, n) == IF a >= 0 THEN a % n ELSE 0 - ((0 - a) % n)

\* the angle in thousandths of a degree, Null for no rotation
getRotation(transform, writingMode) ==
  Val({Val({Val({IF normal = 0 THEN Null ELSE Some(normal) :
                   normal \in {IF remainder(angle, 360000) < 0
                               THEN remainder(angle, 360000) + 360000
                               ELSE remainder(angle, 360000)}}) :
              angle \in {base
                         + (IF transform = <<>> \/ transform = <<"none">> THEN 0
                            ELSE Val({IF rot # {}
                                      THEN parseSigned1000(rotateAt(transform, Min(rot))[1])
                                      ELSE IF matrixAngle(transform) # <<>>
                                      THEN matrixAngle(transform)[1] ELSE 0 :
                                        rot \in {{k \in 1..Len(transform) :
                                                    rotateAt(transform, k) # <<>>}}}))}}) :
         base \in {CASE writingMode = "vertical-rl" -> 90000
                     [] writingMode = "vertical-lr" -> 270000
                     [] OTHER -> 0}})

\* x, y, w, h in px; offset: el.offsetWidth and el.offsetHeight.  Halves of odd
\* lengths are cut to whole px.
getPositionAndSize(el, rect, rotation) ==
  IF rotation = Null
  THEN [x |-> rect.left, y |-> rect.top, w |-> rect.width, h |-> rect.height]
  ELSE Val({IF rotation[1] \in {90000, 270000}
            THEN [x |-> c.x - rect.height \div 2, y |-> c.y - rect.width \div 2,
                  w |-> rect.height, h |-> rect.width]
            ELSE [x |-> c.x - el.offset.width \div 2,
                  y |-> c.y - el.offset.height \div 2,
                  w |-> el.offset.width, h |-> el.offset.height] :
              c \in {[x |-> rect.left + rect.width \div 2,
                      y |-> rect.top + rect.height \div 2]}})

---------------------------------------------------------------------------
(* extractSlideData: the loop over document.querySelectorAll("*") *)

textTags == {"P", "H1", "H2", "H3", "H4", "H5", "H6", "UL", "OL", "LI"}

\* the paths of the element nodes at and below a node, in document order
RECURSIVE elementPaths(_, _)
elementPaths(node, at) ==
  <<at>>
  \o Concat([k \in 1..Len(node.childNodes) |->
               IF node.childNodes[k].tagName \in {"#text", "#comment"} THEN <<>>
               ELSE elementPaths(node.childNodes[k], Append(at, k))])

RECURSIVE elementAt(_, _)
elementAt(node, path) ==
  IF path = <<>> THEN node ELSE elementAt(node.childNodes[Head(path)], Tail(path))

\* position: { x: pxToInch(rect.left), ... }
position(rect) ==
  [x |-> pxToInch(rect.left), y |-> pxToInch(rect.top),
   w |-> pxToInch(rect.width), h |-> pxToInch(rect.height)]

borders(computed) ==
  <<computed.borderTopWidth, computed.borderRightWidth, computed.borderBottomWidth,
    computed.borderLeftWidth>>

\* parseFloat(computed.borderWidth): the shorthand starts with the top width
borderWidth(computed) == computed.borderTopWidth

\* hasBg ? background : hasBorder ? border : shadow; <<>> when the element
\* carries none of them
textPaint(computed) ==
  IF computed.backgroundColor # TransparentBlack THEN <<"background">>
  ELSE IF \E k \in 1..4 : borders(computed)[k] > 0 THEN <<"border">>
  ELSE IF computed.boxShadow # <<>> THEN <<"shadow">>
  ELSE <<>>

E_PLACEHOLDER == "placeholder"
E_UNNAMED == "unnamed"
E_ZERO_SIZE == "has zero width or height. Check the layout CSS."

PlaceholderError(id) ==
  <<E_PLACEHOLDER, SP>> \o (IF id = <<>> THEN <<E_UNNAMED>> ELSE id) \o <<SP, E_ZERO_SIZE>>

\* the placeholder branch; st = [elements, placeholders, errors, processed]
extractPlaceholder(st, el, path) ==
  [(IF el.rect.width = 0 \/ el.rect.height = 0
    THEN [st EXCEPT !.errors = Append(@, PlaceholderError(el.id))]
    ELSE [st EXCEPT !.placeholders =
            Append(@, [id |-> IF el.id # <<>> THEN el.id
                              ELSE <<"placeholder", "-">>
                                   \o decimal(Len(st.placeholders)),
                       x |-> pxToInch(el.rect.left), y |-> pxToInch(el.rect.top),
                       w |-> pxToInch(el.rect.width), h |-> pxToInch(el.rect.height)])])
   EXCEPT !.processed = @ \cup {path}]

\* the image branch: an image without area falls through to the later branches,
\* none of which takes an IMG
extractImage(st, el, path) ==
  IF el.rect.width > 0 /\ el.rect.height > 0
  THEN [st EXCEPT !.elements = Append(@, [type |-> "image", src |-> el.src,
                                          position |-> position(el.rect)]),
                  !.processed = @ \cup {path}]
  ELSE st

\* computed.boxShadow is <<>> for "none", or [inset, color, parts]: whether the
\* word inset occurs, the rgb()/rgba() colour (<<>> when there is none) and the
\* px lengths in order.  The shadow keeps the two offsets, of which the source
\* computes the angle (atan2) and the distance (sqrt).
parseBoxShadow(boxShadow) ==
  IF boxShadow = <<>> THEN Null
  ELSE IF boxShadow.inset \/ Len(boxShadow.parts) < 2 THEN Null
  ELSE Some([type    |-> "outer",
             offsetX |-> boxShadow.parts[1],
             offsetY |-> boxShadow.parts[2],
             blur    |-> IF Len(boxShadow.parts) > 2 THEN pxToPoints(boxShadow.parts[3])
                         ELSE 0,
             color   |-> IF boxShadow.color # <<>> THEN rgbToHex(boxShadow.color)
                         ELSE <<"0", "0", "0", "0", "0", "0">>,
             \* /[\d.]+\)$/ : the last number of the colour, in thousandths
             opacity |-> Val({IF boxShadow.color = <<>> \/ last = {} THEN 500
                              ELSE parseFloat1000(SubSeq(boxShadow.color, Min(last),
                                                         Len(boxShadow.color) - 1)) :
                                last \in {{k \in 1..(Len(boxShadow.color) - 1) :
                                             /\ At(boxShadow.color, Len(boxShadow.color)) = ")"
                                             /\ numberEnd(boxShadow.color, k)
                                                  = Len(boxShadow.color) - 1}}})])

\* every radius read as a number of pixels
rectRadiusOfPixels(radius, rect) ==
  IF numberEnd(radius, 1) = 0 THEN 0
  ELSE (parseFloat1000(SubSeq(radius, 1, numberEnd(radius, 1))) * INCH)
       \div (PX_PER_IN * 1000)

\* rectRadius in inches; 50% and more is the full ellipse, 1
rectRadius(radius, rect) ==
  Val({IF radiusValue = 0 THEN 0
       ELSE IF Includes(radius, <<"%">>)
       THEN IF radiusValue >= 50000 THEN INCH
            ELSE (radiusValue * pxToInch(Min({rect.width, rect.height}))) \div 100000
       ELSE IF Includes(radius, <<"pt">>) THEN (radiusValue * INCH) \div 72000
       ELSE (radiusValue * INCH) \div (PX_PER_IN * 1000) :
         radiusValue \in {IF numberEnd(radius, 1) = 0 THEN 0
                          ELSE parseFloat1000(SubSeq(radius, 1, numberEnd(radius, 1)))}})

\* the line of one edge (1 top, 2 right, 3 bottom, 4 left), inset by half its width
borderLine(edge, b, p, color) ==
  Val({[type  |-> "line",
        x1    |-> CASE edge = 2 -> p.x + p.w - inset [] edge = 4 -> p.x + inset
                    [] OTHER -> p.x,
        y1    |-> CASE edge = 1 -> p.y + inset [] edge = 3 -> p.y + p.h - inset
                    [] OTHER -> p.y,
        x2    |-> CASE edge = 2 -> p.x + p.w - inset [] edge = 4 -> p.x + inset
                    [] OTHER -> p.x + p.w,
        y2    |-> CASE edge = 1 -> p.y + inset [] edge = 3 -> p.y + p.h - inset
                    [] OTHER -> p.y + p.h,
        width |-> pxToPoints(b),
        color |-> color] :
         inset \in {ptToInch(pxToPoints(b)) \div 2}})

\* lines for every border, uniform or not
borderLinesOfEvery(computed, rect) ==
  Concat([k \in 1..4 |->
            IF borders(computed)[k] > 0
            THEN <<borderLine(k, borders(computed)[k], position(rect),
                              rgbToHex(computed.borderColor))>>
            ELSE <<>>])

\* borderLines: filled only for a border that is not uniform
borderLines(computed, rect) ==
  IF (\E k \in 1..4 : borders(computed)[k] > 0)
     /\ ~(\A k \in 1..4 : borders(computed)[k] = borders(computed)[1])
  THEN Concat([k \in 1..4 |->
                 IF borders(computed)[k] > 0
                 THEN <<borderLine(k, borders(computed)[k], position(rect),
                                   rgbToHex(computed.borderColor))>>
                 ELSE <<>>])
  ELSE <<>>

\* the shape of a container with a fill or a uniform border
shapeOf(computed, rect, hasBg, hasUniformBorder) ==
  [type     |-> "shape",
   text     |-> <<>>,
   position |-> position(rect),
   shape    |-> [fill         |-> IF hasBg THEN Some(rgbToHex(computed.backgroundColor))
                                  ELSE Null,
                 transparency |-> IF hasBg THEN extractAlpha(computed.backgroundColor)
                                  ELSE Null,
                 line         |-> IF hasUniformBorder
                                  THEN Some([color |-> rgbToHex(computed.borderColor),
                                             width |-> pxToPoints(borderWidth(computed))])
                                  ELSE Null,
                 rectRadius   |-> rectRadius(computed.borderRadius, rect),
                 shadow       |-> parseBoxShadow(computed.boxShadow)]]

\* the errors for the direct text nodes of a div
unwrappedTextErrors(el) ==
  Concat([k \in 1..Len(el.childNodes) |->
            IF el.childNodes[k].tagName = "#text" /\ Trim(el.childNodes[k].data) # <<>>
            THEN <<UnwrappedError>> ELSE <<>>])

\* the container branch for a DIV
extractContainer(st, el, path) ==
  Val({IF el.computed.backgroundImage # <<"none">>
       THEN [checked EXCEPT !.errors = Append(@, ShapeBackgroundError)]
       ELSE IF /\ hasBg \/ (\E k \in 1..4 : borders(el.computed)[k] > 0)
               /\ el.rect.width > 0 /\ el.rect.height > 0
       THEN [checked EXCEPT
               !.elements =
                 @ \o (IF hasBg \/ hasUniformBorder
                       THEN <<shapeOf(el.computed, el.rect, hasBg, hasUniformBorder)>>
                       ELSE <<>>)
                   \o borderLines(el.computed, el.rect),
               !.processed = @ \cup {path}]
       ELSE checked :
         checked \in {[st EXCEPT !.errors = @ \o unwrappedTextErrors(el)]},
         hasBg \in {el.computed.backgroundColor # TransparentBlack},
         hasUniformBorder \in {/\ \E k \in 1..4 : borders(el.computed)[k] > 0
                               /\ \A k \in 1..4 :
                                    borders(el.computed)[k] = borders(el.computed)[1]}})

\* the glyphs of /^[...]\s*/ in the list branch and of /^[...]\s/ in the text
\* branch, which knows six more
ListBulletGlyphs == {"(bullet)", "-", "*", "(small square)", "(small triangle)"}

TextBulletGlyphs ==
  ListBulletGlyphs \cup {"(white circle)", "(black circle)", "(black diamond)",
                         "(white diamond)", "(black square)", "(white square)"}

\* the text as it is
stripBulletOfNone(text) == text

\* text.replace(/^[...]\s*/, "")
stripBullet(text) ==
  IF At(text, 1) \in ListBulletGlyphs
  THEN SubSeq(text, SkipSpace(text, 2), Len(text))
  ELSE text

\* computed.fontFamily.split(",")[0].replace(/['"]/g, "").trim()
fontFace(fontFamily) ==
  Trim(SelectSeq(SplitOn(fontFamily, ",")[1], LAMBDA t : t \notin {"'", "\""}))

\* computed.textAlign === "start" ? "left" : computed.textAlign
align(computed) == IF computed.textAlign = "start" THEN "left" ELSE computed.textAlign

\* el.querySelectorAll(tags): the descendants with one of the tags, in
\* document order, as paths from the element
el_querySelectorAll(el, tags) ==
  SelectSeq(Tail(elementPaths(el, <<>>)),
            LAMBDA path : elementAt(el, path).tagName \in tags)

\* the runs of one list item: the manual bullet stripped from the first run,
\* which gets the bullet, and breakLine on the last run of all but the last item
listItemRuns(li, isLast, textIndent) ==
  Val({Val({IF Len(bulleted) > 0 /\ ~isLast
            THEN [bulleted EXCEPT ![Len(bulleted)].options.breakLine = Some(TRUE)]
            ELSE bulleted :
              bulleted \in {IF Len(runs) > 0
                            THEN [runs EXCEPT
                                    ![1].text = stripBullet(@),
                                    ![1].options.bullet = Some([indent |-> textIndent])]
                            ELSE runs}}) :
         runs \in {parseInlineFormatting(li, [NoOptions EXCEPT !.breakLine = Some(FALSE)],
                                         "none").runs}})

\* the list branch for a UL or an OL
extractList(st, el, path) ==
  IF el.rect.width = 0 \/ el.rect.height = 0 THEN st
  ELSE Val({Val({[st EXCEPT
               !.elements =
                 Append(@,
                   [type     |-> "list",
                    items    |-> Concat([k \in 1..Len(liElements) |->
                                   listItemRuns(elementAt(el, liElements[k]),
                                                k = Len(liElements),
                                                pxToPoints(el.computed.paddingLeft) \div 2)]),
                    position |-> position(el.rect),
                    style    |->
                      [fontSize        |-> pxToPoints(computed.fontSize),
                       fontFace        |-> fontFace(computed.fontFamily),
                       color           |-> rgbToHex(computed.color),
                       transparency    |-> extractAlpha(computed.color),
                       align           |-> align(computed),
                       lineSpacing     |-> IF computed.lineHeight # Null
                                           THEN Some(pxToPoints(computed.lineHeight[1]))
                                           ELSE Null,
                       paraSpaceBefore |-> 0,
                       paraSpaceAfter  |-> pxToPoints(computed.marginBottom),
                       margin          |-> <<pxToPoints(el.computed.paddingLeft) \div 2,
                                             0, 0, 0>>]]),
               !.errors =
                 @ \o Concat([k \in 1..Len(liElements) |->
                        parseInlineFormatting(elementAt(el, liElements[k]),
                                              NoOptions, "none").errors]),
               !.processed =
                 @ \cup {path \o liElements[k] : k \in 1..Len(liElements)} \cup {path}] :
             computed \in {IF Len(liElements) > 0
                           THEN elementAt(el, liElements[1]).computed
                           ELSE el.computed}}) :
         liElements \in {el_querySelectorAll(el, {"LI"})}})

E_STARTS_WITH_BULLET == "> starts with the bullet symbol "
E_USE_LIST == "... use <ul> or <ol> instead of manual bullets."

\* the texts of the pages are shorter than the 20 characters the message quotes
ManualBulletError(tag, text) ==
  <<E_TEXT_ELEMENT, tag, E_STARTS_WITH_BULLET>> \o text \o <<E_USE_LIST>>

\* computed.fontWeight === "bold" || parseInt(computed.fontWeight) >= 600
isBold(computed) == computed.fontWeight >= 600

\* the style both kinds of text element start from; lineSpacing is absent
\* where pxToPoints("normal") is NaN
baseStyle(computed, rotation) ==
  [fontSize        |-> pxToPoints(computed.fontSize),
   fontFace        |-> fontFace(computed.fontFamily),
   color           |-> rgbToHex(computed.color),
   align           |-> align(computed),
   lineSpacing     |-> IF computed.lineHeight # Null
                       THEN Some(pxToPoints(computed.lineHeight[1])) ELSE Null,
   paraSpaceBefore |-> pxToPoints(computed.marginTop),
   paraSpaceAfter  |-> pxToPoints(computed.marginBottom),
   margin          |-> <<pxToPoints(computed.paddingLeft), pxToPoints(computed.paddingRight),
                         pxToPoints(computed.paddingBottom),
                         pxToPoints(computed.paddingTop)>>,
   transparency    |-> extractAlpha(computed.color),
   rotate          |-> rotation,
   bold            |-> Null,
   italic          |-> Null,
   underline       |-> Null]

\* lineSpacing scaled to the largest font size of the runs
adjustedStyle(style, runs) ==
  IF style.lineSpacing = Null \/ style.lineSpacing = Some(0) THEN style
  ELSE Val({IF maxFontSize > style.fontSize
            THEN [style EXCEPT !.lineSpacing =
                    Some((maxFontSize * style.lineSpacing[1]) \div style.fontSize)]
            ELSE style :
              maxFontSize \in {Max({style.fontSize}
                                   \cup {IF runs[k].options.fontSize = Null THEN 0
                                         ELSE runs[k].options.fontSize[1] :
                                           k \in 1..Len(runs)})}})

\* the text branch for the tags of textTags other than the lists; typeofText is
\* what typeof el.text gives: the text is a string or an array of runs
extractText(st, el, path) ==
  Val({IF el.rect.width = 0 \/ el.rect.height = 0 \/ text = <<>> THEN st
       ELSE IF /\ el.tagName # "LI"
               /\ At(text, 1) \in TextBulletGlyphs
               /\ IsSpace(At(text, 2))
       THEN [st EXCEPT !.errors =
               Append(@, ManualBulletError(casedToken(el.tagName, "lower"), text))]
       ELSE Val({IF el_querySelectorAll(el, {"B", "I", "U", "STRONG", "EM", "SPAN", "BR"})
                      # <<>>
                 THEN Val({[st EXCEPT
                              !.elements =
                                Append(@, [type     |-> casedToken(el.tagName, "lower"),
                                           typeofText |-> "object",
                                           text     |-> parsed.runs,
                                           position |-> position(Rect(box.x, box.y, box.w, box.h)),
                                           style    |-> adjustedStyle(style, parsed.runs)]),
                              !.errors = @ \o parsed.errors,
                              !.processed = @ \cup {path}] :
                             parsed \in {parseInlineFormatting(
                                           el, NoOptions, el.computed.textTransform)}})
                 ELSE [st EXCEPT
                         !.elements =
                           Append(@,
                             [type     |-> casedToken(el.tagName, "lower"),
                              typeofText |-> "string",
                              text     |-> applyTextTransform(text,
                                                              el.computed.textTransform),
                              position |-> position(Rect(box.x, box.y, box.w, box.h)),
                              style    |->
                                [style EXCEPT
                                   !.bold = Some(/\ isBold(el.computed)
                                                 /\ ~shouldSkipBold(el.computed.fontFamily)),
                                   !.italic = Some(el.computed.fontStyle = "italic"),
                                   !.underline =
                                     Some(Includes(el.computed.textDecoration,
                                                   <<"underline">>))]]),
                         !.processed = @ \cup {path}] :
                   box \in {getPositionAndSize(el, el.rect, rotation)},
                   style \in {baseStyle(el.computed, rotation)}}) :
         text \in {Trim(textContent(el))},
         rotation \in {getRotation(el.computed.transform, el.computed.writingMode)}})

\* the body of the forEach for the element at a path
visit(st, root, path) ==
  Val({IF path \in st.processed THEN st
       ELSE IF el.tagName \in textTags /\ textPaint(el.computed) # <<>>
       THEN [st EXCEPT !.errors =
               Append(@, PaintError(casedToken(el.tagName, "lower"),
                                    textPaint(el.computed)[1]))]
       ELSE IF "placeholder" \in el.classList THEN extractPlaceholder(st, el, path)
       ELSE IF el.tagName = "IMG" THEN extractImage(st, el, path)
       ELSE IF el.tagName = "DIV" THEN extractContainer(st, el, path)
       ELSE IF el.tagName \in {"UL", "OL"} THEN extractList(st, el, path)
       ELSE IF el.tagName \in textTags THEN extractText(st, el, path)
       ELSE st :
         el \in {elementAt(root, path)}})

\* the elements, placeholders and errors of a page, whose root is the <html>
\* element
extractSlideData(root) ==
  Val({LET each[i \in 0..Len(paths)] ==
             IF i = 0
             THEN [elements |-> <<>>, placeholders |-> <<>>, errors |-> <<>>,
                   processed |-> {}]
             ELSE visit(each[i - 1], root, paths[i])
       IN  each[Len(paths)] :
         paths \in {elementPaths(root, <<>>)}})

---------------------------------------------------------------------------
(* The inline parser on the child nodes of one paragraph *)

MaxNodes == 3        \* child nodes of the paragraph

BoldStyle == [ComputedStyle EXCEPT !.fontWeight = 700]

\* " Hello "
T_hello == Text(<<SP, "Hello", SP>>)
\* "world"
T_world == Text(<<"world">>)
\* <b>bold </b>
B_bold == Element("B", BoldStyle, <<Text(<<"bold", SP>>)>>)
\* <span>one<span>two</span></span>
SPAN_nested ==
  Element("SPAN", ComputedStyle,
          <<Text(<<"one">>), Element("SPAN", ComputedStyle, <<Text(<<"two">>)>>)>>)
\* <span></span>
SPAN_empty == Element("SPAN", ComputedStyle, <<>>)

NodeLib == {T_hello, T_world, Br, B_bold, SPAN_nested, SPAN_empty}

Paragraphs ==
  {Element("P", [ComputedStyle EXCEPT !.textTransform = tt], nodes) :
     tt \in {"none", "uppercase"}, nodes \in SeqsUpTo(NodeLib, MaxNodes) \ {<<>>}}

InitInline ==
  /\ NoRun("inline")
  /\ page \in Paragraphs
  /\ slideData = <<>>

\* const runs = parseInlineFormatting(el, {}, [], (str) =>
\*   applyTextTransform(str, transformStr))
ParseInline ==
  /\ pc = "inline"
  /\ slideData' = parseInlineFormatting(page, NoOptions, page.computed.textTransform)
  /\ pc' = "parsed"
  /\ UNCHANGED <<file, backup, original, lastError, fixers, idx, hasAnyFix, applied,
                 result, calls, conv, passes, page>>

SpecInline == InitInline /\ [][ParseInline]_vars

---------------------------------------------------------------------------
(* Claims on the inline parser *)

\* the runs as the fragments make them, with no run trimmed at all
RECURSIVE UntrimmedRuns(_, _, _, _)
UntrimmedRuns(element, baseOptions, runs, baseTextTransform) ==
  Val({LET each[i \in 0..Len(nodes)] ==
             IF i = 0 THEN runs
             ELSE Val({IF isTextOrBr(node)
                       THEN pushText(before, node, i > 1 /\ isTextOrBr(nodes[i - 1]),
                                     baseOptions, baseTextTransform)
                       ELSE IF /\ node.tagName \in InlineTags
                               /\ Trim(textContent(node)) # <<>>
                       THEN UntrimmedRuns(
                              node, inlineOptions(baseOptions, node.computed), before,
                              IF node.computed.textTransform # "none"
                              THEN node.computed.textTransform
                              ELSE baseTextTransform)
                       ELSE before :
                         before \in {each[i - 1]}, node \in {nodes[i]}})
       IN  each[Len(nodes)] : nodes \in {element.childNodes}})

\* C11: in the run sequence of one text element only the very first run loses
\* leading whitespace and only the very last run loses trailing whitespace; no
\* run in the middle of the sequence is trimmed.
C11_OnlyEndsTrimmed ==
  pc = "parsed" =>
    slideData.runs =
      SelectSeq(trimEnds(UntrimmedRuns(page, NoOptions, <<>>,
                                       page.computed.textTransform)),
                LAMBDA r : Len(r.text) > 0)

\* C12: two adjacent plain-text fragments with identical options are one run:
\* the output never has two consecutive runs with identical options.
C12_NoEqualNeighbours ==
  pc = "parsed" =>
    \A k \in 1..(Len(slideData.runs) - 1) :
      slideData.runs[k].options # slideData.runs[k + 1].options


---------------------------------------------------------------------------
(* The extraction of one rendered page *)

MaxBorder == 2       \* px of the widest border edge of a container

Red == <<"rgb", "(", "2", "5", "5", ",", SP, "0", ",", SP, "0", ")">>

\* the rendered <body> with its children; <html> and <head> take no branch
Page(kids) == Element("BODY", ComputedStyle, kids)

At0(el) == [el EXCEPT !.rect = Rect(96, 96, 192, 0), !.offset = [width |-> 192, height |-> 0]]

\* a div for every combination of the four border widths, with and without a
\* fill, area and a background image
Containers ==
  {Val({IF area THEN div ELSE At0(div) :
          div \in {Element("DIV",
                           [ComputedStyle EXCEPT
                              !.borderTopWidth = b[1], !.borderRightWidth = b[2],
                              !.borderBottomWidth = b[3], !.borderLeftWidth = b[4],
                              !.backgroundColor = bg, !.backgroundImage = image],
                           <<>>)}}) :
     b \in [1..4 -> 0..MaxBorder], bg \in {TransparentBlack, Red},
     area \in BOOLEAN, image \in {<<"none">>, <<"url", "(", "bg.png", ")">>}}

\* the three kinds of paint the text tags must not carry
Shadow == [inset |-> FALSE, parts |-> <<2, 2, 4>>,
           color |-> <<"rgba", "(", "0", ",", SP, "0", ",", SP, "0", ",", SP,
                       "0", ".", "5", ")">>]

Painted(computed, paint) ==
  CASE paint = "background" -> [computed EXCEPT !.backgroundColor = Red]
    [] paint = "border" -> [computed EXCEPT !.borderBottomWidth = 1]
    [] paint = "shadow" -> [computed EXCEPT !.boxShadow = Shadow]
    [] OTHER -> computed

Paints == {"none", "background", "border", "shadow"}

T_item == Text(<<"Item", SP, "one">>)

\* standalone text elements, painted and not
PaintedTexts ==
  {Element(tag, Painted(ComputedStyle, paint), <<T_item>>) :
     tag \in {"P", "H1", "H6", "LI"}, paint \in Paints}

\* computed colours with their channels and their alpha in thousandths
Colors ==
  {[css |-> Black, r |-> 0, g |-> 0, b |-> 0, alpha |-> <<>>],
   [css |-> Red, r |-> 255, g |-> 0, b |-> 0, alpha |-> <<>>],
   [css |-> TransparentBlack, r |-> 0, g |-> 0, b |-> 0, alpha |-> <<0>>],
   [css |-> <<"rgba", "(", "1", "0", ",", SP, "2", "0", ",", SP, "3", "0", ",", SP,
              "0", ".", "2", "5", ")">>,
    r |-> 10, g |-> 20, b |-> 30, alpha |-> <<250>>],
   [css |-> <<"rgba", "(", "2", "5", "5", ",", SP, "1", "7", "1", ",", SP, "0", ",", SP,
              "0", ".", "5", ")">>,
    r |-> 255, g |-> 171, b |-> 0, alpha |-> <<500>>]}

\* a paragraph in every colour, plain and with an inline span of that colour
ColoredTexts ==
  {Element("P", [ComputedStyle EXCEPT !.color = c.css], <<T_item>>) : c \in Colors}
  \cup {Element("P", ComputedStyle,
                 <<Element("SPAN", [ComputedStyle EXCEPT !.color = c.css], <<T_item>>)>>) :
          c \in Colors}

MaxTurns == 2        \* full turns a rotate() angle reaches in either direction

\* the computed transforms with the degrees they turn by: rotate() by the
\* multiples of 90 and by 45.5, and the matrices of the multiples of 45
Rotations ==
  {[css |-> <<"none">>, deg |-> 0]}
  \cup {[css |-> <<"rotate", "(">> \o (IF q < 0 THEN <<"-">> ELSE <<>>)
                \o decimal(IF q < 0 THEN 0 - 90 * q ELSE 90 * q) \o <<"deg", ")">>,
          deg |-> 90000 * q] : q \in (0 - 4 * MaxTurns)..(4 * MaxTurns)}
  \cup {[css |-> <<"rotate", "(", "-", "4", "5", ".", "5", "deg", ")">>, deg |-> 0 - 45500],
        [css |-> <<"rotate", "(", "4", "0", "5", ".", "5", "deg", ")">>, deg |-> 405500]}
  \cup {[css |-> <<"matrix", "(">> \o m.a \o <<",", SP>> \o m.b \o <<",", SP, "0", ",", SP,
                  "0", ",", SP, "0", ",", SP, "0", ")">>,
          deg |-> m.deg] :
          m \in {[a |-> <<"1">>, b |-> <<"0">>, deg |-> 0],
                 [a |-> <<"0", ".", "7", "0", "7">>, b |-> <<"0", ".", "7", "0", "7">>,
                  deg |-> 45000],
                 [a |-> <<"0">>, b |-> <<"1">>, deg |-> 90000],
                 [a |-> <<"-", "1">>, b |-> <<"0">>, deg |-> 180000],
                 [a |-> <<"0">>, b |-> <<"-", "1">>, deg |-> 0 - 90000],
                 [a |-> <<"0", ".", "7", "0", "7">>, b |-> <<"-", "0", ".", "7", "0", "7">>,
                  deg |-> 0 - 45000]}}

WritingModes == {"horizontal-tb", "vertical-rl", "vertical-lr"}

RotatedTexts ==
  {Element("P", [ComputedStyle EXCEPT !.transform = r.css, !.writingMode = wm],
           <<T_item>>) : r \in Rotations, wm \in WritingModes}

MaxItems == 2        \* items of a list

LI_plain == Element("LI", ComputedStyle, <<T_item>>)

LI_bullet == Element("LI", ComputedStyle, <<Text(<<GAP, "(bullet)", SP, "Item", SP, "one">>)>>)

LI_bold ==
  Element("LI", ComputedStyle,
          <<Element("B", [ComputedStyle EXCEPT !.fontWeight = 700], <<Text(<<"-", "bold">>)>>),
            Text(<<SP, "world">>)>>)

LI_painted == Element("LI", Painted(ComputedStyle, "background"), <<T_item>>)

LI_placeholder ==
  [Element("LI", ComputedStyle, <<>>) EXCEPT !.classList = {"placeholder"},
                                             !.id = <<"chart">>]

LiLib == {LI_plain, LI_bullet, LI_bold, LI_painted, LI_placeholder}

\* list containers with up to MaxItems items
Lists ==
  {Val({IF area THEN list ELSE At0(list) :
          list \in {Element(tag, Painted([ComputedStyle EXCEPT !.paddingLeft = padding],
                                         paint), items)}}) :
     tag \in {"UL", "OL"}, padding \in {0, 40}, paint \in {"none", "border"},
     area \in BOOLEAN, items \in SeqsUpTo(LiLib, MaxItems)}

MaxPlaceholders == 2 \* placeholders of a page

\* elements with class placeholder: named and unnamed, with and without area,
\* and one that is a painted paragraph
PlaceholderLib ==
  {[Element("DIV", ComputedStyle, <<>>) EXCEPT
      !.classList = {"placeholder"}, !.id = id, !.rect = Rect(96, 96, w, h)] :
     id \in {<<>>, <<"chart">>}, w \in {0, 192}, h \in {0, 48}}
  \cup {[Element("P", Painted(ComputedStyle, "background"), <<T_item>>) EXCEPT
           !.classList = {"placeholder"}]}

Pages ==
  {Page(<<el>>) : el \in Containers \cup PaintedTexts \cup ColoredTexts \cup RotatedTexts
                         \cup Lists}
  \cup {Page(kids) : kids \in SeqsUpTo(PlaceholderLib, MaxPlaceholders) \ {<<>>}}

InitExtract ==
  /\ NoRun("page")
  /\ page \in Pages
  /\ slideData = <<>>

\* const slideData = await extractSlideData(page)
ExtractSlideData ==
  /\ pc = "page"
  /\ slideData' = extractSlideData(page)
  /\ pc' = "extracted"
  /\ UNCHANGED <<file, backup, original, lastError, fixers, idx, hasAnyFix, applied,
                 result, calls, conv, passes, page>>

SpecExtract == InitExtract /\ [][ExtractSlideData]_vars

---------------------------------------------------------------------------
(* Claims on the extraction *)

Extracted == pc = "extracted"

Shapes == SelectSeq(slideData.elements, LAMBDA e : e.type = "shape")

Lines == SelectSeq(slideData.elements, LAMBDA e : e.type = "line")

\* the page is one rendered container without a background image
OneContainer ==
  /\ Len(page.childNodes) = 1
  /\ page.childNodes[1].tagName = "DIV"
  /\ "placeholder" \notin page.childNodes[1].classList
  /\ page.childNodes[1].childNodes = <<>>
  /\ page.childNodes[1].rect.width > 0 /\ page.childNodes[1].rect.height > 0
  /\ page.childNodes[1].computed.backgroundImage = <<"none">>

Edges == borders(page.childNodes[1].computed)

Uniform == Edges[1] > 0 /\ \A k \in 1..4 : Edges[k] = Edges[1]

Filled == page.childNodes[1].computed.backgroundColor # TransparentBlack

\* the line lies along an edge of the box (1 top, 2 right, 3 bottom, 4 left),
\* moved inwards by half its stroke width
InsetOn(l, edge, p) ==
  LET half == ptToInch(l.width) \div 2
  IN  CASE edge = 1 -> l.x1 = p.x /\ l.x2 = p.x + p.w /\ l.y1 = p.y + half /\ l.y2 = l.y1
        [] edge = 2 -> l.y1 = p.y /\ l.y2 = p.y + p.h /\ l.x1 = p.x + p.w - half
                       /\ l.x2 = l.x1
        [] edge = 3 -> l.x1 = p.x /\ l.x2 = p.x + p.w /\ l.y1 = p.y + p.h - half
                       /\ l.y2 = l.y1
        [] OTHER    -> l.y1 = p.y /\ l.y2 = p.y + p.h /\ l.x1 = p.x + half /\ l.x2 = l.x1

\* C13: for every combination of the four border widths of a rendered container
\* div: a uniform border (all four equal and non-zero) gives exactly one shape
\* with a stroke and no line; a non-uniform border gives at most one shape, with
\* a fill and no stroke, and exactly one line per non-zero edge, inset from its
\* edge by half its stroke width; a shape is emitted only for a fill or a
\* uniform border.
C13_BordersToShapesAndLines ==
  (Extracted /\ OneContainer) =>
    /\ Uniform => /\ Len(Shapes) = 1
                  /\ Shapes[1].shape.line # Null
                  /\ Lines = <<>>
    /\ (~Uniform /\ \E k \in 1..4 : Edges[k] > 0) =>
         /\ Len(Shapes) <= 1
         /\ \A s \in 1..Len(Shapes) :
              Shapes[s].shape.line = Null /\ Shapes[s].shape.fill # Null
         /\ Len(Lines) = Cardinality({k \in 1..4 : Edges[k] > 0})
         /\ \A k \in 1..4 :
              Edges[k] > 0 =>
                Cardinality({i \in 1..Len(Lines) :
                               /\ Lines[i].width = pxToPoints(Edges[k])
                               /\ InsetOn(Lines[i], k,
                                          position(page.childNodes[1].rect))}) = 1
    /\ Len(Shapes) > 0 => Filled \/ Uniform
    /\ Len(Shapes) + Len(Lines) = Len(slideData.elements)

C13_Witness ==
  /\ Extracted /\ OneContainer /\ Filled
  /\ Edges = <<2, 0, 1, 2>>
  /\ Len(Shapes) = 1 /\ Len(Lines) = 3


PagePaths == Range(elementPaths(page, <<>>))

\* the computed style carries a background, a border or a shadow
HasPaint(computed) ==
  \/ computed.backgroundColor # TransparentBlack
  \/ computed.borderTopWidth > 0 \/ computed.borderRightWidth > 0
  \/ computed.borderBottomWidth > 0 \/ computed.borderLeftWidth > 0
  \/ computed.boxShadow # <<>>

\* the element at the path is in the output: as a text element or a list of its
\* own, or as runs of a list
EmittedAt(path) ==
  /\ path \in slideData.processed
  /\ \E i \in 1..Len(slideData.elements) :
       \/ slideData.elements[i].type = casedToken(elementAt(page, path).tagName, "lower")
       \/ /\ slideData.elements[i].type = "list"
          /\ \/ elementAt(page, path).tagName \in {"UL", "OL"}
             \/ \E k \in 1..Len(slideData.elements[i].items) :
                  slideData.elements[i].items[k].text
                    = Trim(textContent(elementAt(page, path)))

\* C14: every text-bearing element (p, h1-h6, ul, ol, li) whose computed style
\* has a background, a non-zero border width or a box-shadow produces a
\* validation error and is not emitted, list items inside a list included.
C14_PaintedTextRejected ==
  Extracted =>
    \A path \in PagePaths :
      (/\ elementAt(page, path).tagName \in textTags
       /\ HasPaint(elementAt(page, path).computed)) =>
        /\ \E i \in 1..Len(slideData.errors) :
             /\ slideData.errors[i][1] = E_TEXT_ELEMENT
             /\ slideData.errors[i][2] = casedToken(elementAt(page, path).tagName, "lower")
        /\ ~EmittedAt(path)


\* the two upper-case hex digits of a channel
UpperHex(n) ==
  LET digit(d) == <<"0", "1", "2", "3", "4", "5", "6", "7", "8", "9",
                    "A", "B", "C", "D", "E", "F">>[d + 1]
  IN  <<digit(n \div 16), digit(n % 16)>>

\* the page is one paragraph in the colour c, or one paragraph holding one span
\* in that colour
TextIn(c) ==
  /\ Len(page.childNodes) = 1
  /\ page.childNodes[1].tagName = "P"
  /\ page.childNodes[1].classList = {}
  /\ Len(slideData.elements) = 1
  /\ page.childNodes[1].computed.color = c.css
  /\ page.childNodes[1].childNodes = <<T_item>>

SpanIn(c) ==
  /\ Len(page.childNodes) = 1
  /\ page.childNodes[1].tagName = "P"
  /\ Len(slideData.elements) = 1
  /\ Len(page.childNodes[1].childNodes) = 1
  /\ page.childNodes[1].childNodes[1].tagName = "SPAN"
  /\ page.childNodes[1].childNodes[1].computed.color = c.css

\* a colour and transparency are those the claim gives for the colour c
ColourOf(c, color, transparency) ==
  IF c.css = TransparentBlack
  THEN color = <<"F", "F", "F", "F", "F", "F">> /\ transparency = Null
  ELSE /\ color = UpperHex(c.r) \o UpperHex(c.g) \o UpperHex(c.b)
       /\ transparency = IF c.alpha = Null THEN Null
                         ELSE Some((1000 - c.alpha[1] + 5) \div 10)

\* C15: wherever a colour is extracted, rgba(0, 0, 0, 0) gives white (FFFFFF)
\* with no transparency value, and an rgba colour with alpha a gives the six
\* hex digits of its channels with transparency round((1 - a) * 100):
\* rgba(10, 20, 30, 0.25) gives 0A141E with transparency 75.
C15_ColourExtraction ==
  Extracted =>
    \A c \in Colors :
      /\ TextIn(c) => ColourOf(c, slideData.elements[1].style.color,
                               slideData.elements[1].style.transparency)
      /\ (SpanIn(c) /\ c.css # Black) =>
           /\ slideData.elements[1].text[1].options.color # Null
           /\ ColourOf(c, slideData.elements[1].text[1].options.color[1],
                       slideData.elements[1].text[1].options.transparency)


\* the page is one paragraph turned by the rotation r under a writing mode
Turned(r) ==
  /\ Len(page.childNodes) = 1
  /\ page.childNodes[1].tagName = "P"
  /\ page.childNodes[1].childNodes = <<T_item>>
  /\ page.childNodes[1].computed.color = Black
  /\ page.childNodes[1].computed.transform = r.css
  /\ Len(slideData.elements) = 1

\* the net rotation in thousandths of a degree: writing mode plus transform
Net(r) ==
  r.deg + (CASE page.childNodes[1].computed.writingMode = "vertical-rl" -> 90000
             [] page.childNodes[1].computed.writingMode = "vertical-lr" -> 270000
             [] OTHER -> 0)

\* C16: for every writing mode (horizontal, vertical-rl = 90, vertical-lr =
\* 270) composed with every transform rotation, positive, negative or beyond a
\* full turn, the rotation is an angle in [0, 360) or absent; a net rotation of 0
\* (mod 360) is absent and never 0, and the text style then has no rotate field.
C16_RotationNormalized ==
  Extracted =>
    \A r \in Rotations :
      Turned(r) =>
        /\ getRotation(r.css, page.childNodes[1].computed.writingMode)
             = slideData.elements[1].style.rotate
        /\ IF Net(r) % 360000 = 0
           THEN slideData.elements[1].style.rotate = Null
           ELSE /\ slideData.elements[1].style.rotate = Some(Net(r) % 360000)
                /\ slideData.elements[1].style.rotate[1] > 0
                /\ slideData.elements[1].style.rotate[1] < 360000

C16_Witness ==
  /\ Extracted
  /\ \E r \in Rotations : Turned(r) /\ r.deg = 0 - 450000
  /\ page.childNodes[1].computed.writingMode = "vertical-rl"
  /\ slideData.elements[1].style.rotate = Null


\* the elements flagged as placeholders, in document order, but for those
\* rejected as painted text elements
Flagged ==
  SelectSeq(elementPaths(page, <<>>),
            LAMBDA path :
              /\ "placeholder" \in elementAt(page, path).classList
              /\ ~(/\ elementAt(page, path).tagName \in textTags
                   /\ HasPaint(elementAt(page, path).computed)))

HasArea(path) ==
  elementAt(page, path).rect.width > 0 /\ elementAt(page, path).rect.height > 0

\* C17: every element flagged as a placeholder is emitted as a placeholder of
\* width > 0 and height > 0, or reported as a validation error when its width or
\* height is 0, and never skipped silently; no emitted placeholder has zero
\* width or height; a placeholder without an id gets a positional default id.
C17_PlaceholdersNeverSkipped ==
  Extracted =>
    LET sized == SelectSeq(Flagged, HasArea)
        zero  == SelectSeq(Flagged, LAMBDA path : ~HasArea(path))
    IN  /\ Len(slideData.placeholders) = Len(sized)
        /\ \A k \in 1..Len(sized) :
             /\ k <= Len(slideData.placeholders)
             /\ slideData.placeholders[k].w = pxToInch(elementAt(page, sized[k]).rect.width)
             /\ slideData.placeholders[k].h = pxToInch(elementAt(page, sized[k]).rect.height)
             /\ slideData.placeholders[k].id
                  = IF elementAt(page, sized[k]).id # <<>> THEN elementAt(page, sized[k]).id
                    ELSE <<"placeholder", "-">> \o decimal(k - 1)
        /\ \A k \in 1..Len(slideData.placeholders) :
             slideData.placeholders[k].w > 0 /\ slideData.placeholders[k].h > 0
        /\ Cardinality({i \in 1..Len(slideData.errors) :
                          slideData.errors[i][1] = E_PLACEHOLDER}) = Len(zero)


\* the page is one list container that is rendered and passes the validation
\* of the text tags
OneList ==
  /\ Len(page.childNodes) = 1
  /\ page.childNodes[1].tagName \in {"UL", "OL"}
  /\ page.childNodes[1].rect.width > 0 /\ page.childNodes[1].rect.height > 0
  /\ ~HasPaint(page.childNodes[1].computed)

Items == page.childNodes[1].childNodes

\* the runs of the item before the list branch touches them
ItemRuns(k) ==
  parseInlineFormatting(Items[k], [NoOptions EXCEPT !.breakLine = Some(FALSE)], "none").runs

\* the place of the first run of item k among the runs of the list
FirstRun(k) ==
  1 + Len(Concat([j \in 1..(k - 1) |-> ItemRuns(j)]))

\* the text without a leading bullet glyph and the white space after it
Unbulleted(text) ==
  IF Len(text) > 0 /\ text[1] \in {"(bullet)", "-", "*", "(small square)", "(small triangle)"}
  THEN IF \E i \in 2..Len(text) : ~IsSpace(text[i])
       THEN SubSeq(text, Min({i \in 2..Len(text) : ~IsSpace(text[i])}), Len(text))
       ELSE <<>>
  ELSE text

---------------------------------------------------------------------------
(* getBodyDimensions and validateDimensions: sizes in whole px *)

EMU_PER_IN == 914400

E_HORIZONTAL == "px horizontally"
E_VERTICAL == "px vertically"
E_AND == " and "
E_FOOTER_HINT == "(note: keep a 48px (0.5 inch) margin at the bottom of the slide)"
E_PPT_LAYOUT == ") and the PPT layout ("
E_PX_BY == "px x "

\* the overflow as no tolerance would count it
overflowPxOfAny(scroll, declared) == Max({0, scroll - declared})

\* Math.max(0, bodyDimensions.scrollWidth - bodyDimensions.width - 1)
overflowPx(scroll, declared) == Max({0, scroll - declared - 1})

\* bodyDimensions = [width, height, scrollWidth, scrollHeight]: the declared
\* size of the body and the size of its content; the result is
\* { ...bodyDimensions, errors }
getBodyDimensions(bodyDimensions) ==
  Val({[width |-> bodyDimensions.width, height |-> bodyDimensions.height,
        scrollWidth |-> bodyDimensions.scrollWidth,
        scrollHeight |-> bodyDimensions.scrollHeight,
        errors |->
          IF pxToPoints(widthOverflowPx) > 0 \/ pxToPoints(heightOverflowPx) > 0
          THEN <<OverflowError
                 \o <<"(">> \o decimal(bodyDimensions.width) \o <<"x">>
                 \o decimal(bodyDimensions.height) \o <<")", ":">>
                 \o JoinWith((IF widthOverflowPx > 0
                              THEN <<decimal(widthOverflowPx) \o <<E_HORIZONTAL>>>>
                              ELSE <<>>)
                             \o (IF heightOverflowPx > 0
                                 THEN <<decimal(heightOverflowPx) \o <<E_VERTICAL>>>>
                                 ELSE <<>>),
                             <<E_AND>>)
                 \o (IF pxToPoints(heightOverflowPx) > 0 THEN <<E_FOOTER_HINT>> ELSE <<>>)
                 \o <<SP>>>>
          ELSE <<>>] :
         widthOverflowPx \in {overflowPx(bodyDimensions.scrollWidth, bodyDimensions.width)},
         heightOverflowPx \in {overflowPx(bodyDimensions.scrollHeight,
                                          bodyDimensions.height)}})

\* any difference between the layout and the body
mismatchOfAny(layout, px) == layout # px * (EMU_PER_IN \div PX_PER_IN)

\* Math.abs(layoutWidth - widthInches) > 0.1, both sides in EMU
mismatch(layout, px) ==
  Val({(IF d < 0 THEN 0 - d ELSE d) > EMU_PER_IN \div 10 :
         d \in {layout - px * (EMU_PER_IN \div PX_PER_IN)}})

\* Math.round(layoutWidth * PX_PER_IN)
layoutPx(layout) ==
  (2 * layout + EMU_PER_IN \div PX_PER_IN) \div (2 * (EMU_PER_IN \div PX_PER_IN))

\* pres.presLayout: Null, or Some of the width and height of the page in EMU
validateDimensions(bodyDimensions, pres) ==
  IF pres.presLayout # Null
     /\ (\/ mismatch(pres.presLayout[1].width, bodyDimensions.width)
         \/ mismatch(pres.presLayout[1].height, bodyDimensions.height))
  THEN <<DimensionError
         \o <<"(">> \o decimal(bodyDimensions.width) \o <<E_PX_BY>>
         \o decimal(bodyDimensions.height) \o <<"px", E_PPT_LAYOUT>>
         \o decimal(layoutPx(pres.presLayout[1].width)) \o <<E_PX_BY>>
         \o decimal(layoutPx(pres.presLayout[1].height)) \o <<"px", ")">>>>
  ELSE <<>>

\* pptx.defineLayout({ name, width, height }) in inches, kept in EMU
CUSTOM_1280x720 == [width |-> 12188952, height |-> 6858000]

CUSTOM_1600x900 == [width |-> 15243048, height |-> 8577072]

MaxOverflow == 3     \* px by which the content is larger than the body

\* bodies around the size of the 1600x900 layout, with content from one px
\* smaller than the body to MaxOverflow px larger
Bodies ==
  {[width |-> w, height |-> h, scrollWidth |-> w + x, scrollHeight |-> h + y] :
     w \in {1590, 1591, 1600, 1610, 1611}, h \in {890, 891, 900, 910, 911},
     x \in (0 - 1)..MaxOverflow, y \in (0 - 1)..MaxOverflow}

Presentations ==
  {[presLayout |-> l] : l \in {Null, Some(CUSTOM_1280x720), Some(CUSTOM_1600x900)}}

InitDimensions ==
  /\ NoRun("body")
  /\ page \in {[body |-> b, pres |-> p] : b \in Bodies, p \in Presentations}
  /\ slideData = <<>>

\* bodyDimensions = await getBodyDimensions(page), then
\* validateDimensions(bodyDimensions, pres)
CheckDimensions ==
  /\ pc = "body"
  /\ slideData' =
       Val({[bodyDimensions |-> bodyDimensions,
             dimensionErrors |-> validateDimensions(bodyDimensions, page.pres)] :
               bodyDimensions \in {getBodyDimensions(page.body)}})
  /\ pc' = "measured"
  /\ UNCHANGED <<file, backup, original, lastError, fixers, idx, hasAnyFix, applied,
                 result, calls, conv, passes, page>>

SpecDimensions == InitDimensions /\ [][CheckDimensions]_vars

---------------------------------------------------------------------------
(* Claims on the two checks of the size *)

Measured == pc = "measured"

OverWidth == page.body.scrollWidth - page.body.width

OverHeight == page.body.scrollHeight - page.body.height

\* the tokens occur one after the other in the message
Says(message, tokens) ==
  \E k \in 1..(Len(message) - Len(tokens) + 1) :
    SubSeq(message, k, k + Len(tokens) - 1) = tokens

\* C19: the overflow check gives an error exactly when the content is larger
\* than the declared size of the body by more than 1px on at least one axis;
\* the message names each overflowing axis with its overflow in px, counted
\* beyond the 1px of tolerance, and no other axis, and holds the footer-margin
\* hint exactly when the height overflows; within 1px on both axes there is no
\* error.
C19_OverflowBeyondTolerance ==
  Measured =>
    IF OverWidth > 1 \/ OverHeight > 1
    THEN /\ Len(slideData.bodyDimensions.errors) = 1
         /\ Says(slideData.bodyDimensions.errors[1], <<E_HORIZONTAL>>) <=> OverWidth > 1
         /\ OverWidth > 1 =>
              Says(slideData.bodyDimensions.errors[1],
                   <<":">> \o decimal(OverWidth - 1) \o <<E_HORIZONTAL>>)
         /\ Says(slideData.bodyDimensions.errors[1], <<E_VERTICAL>>) <=> OverHeight > 1
         /\ OverHeight > 1 =>
              \/ Says(slideData.bodyDimensions.errors[1],
                      <<":">> \o decimal(OverHeight - 1) \o <<E_VERTICAL>>)
              \/ Says(slideData.bodyDimensions.errors[1],
                      <<E_AND>> \o decimal(OverHeight - 1) \o <<E_VERTICAL>>)
         /\ Says(slideData.bodyDimensions.errors[1], <<E_FOOTER_HINT>>) <=> OverHeight > 1
    ELSE slideData.bodyDimensions.errors = <<>>

C19_Witness ==
  /\ Measured
  /\ OverWidth = 1 /\ OverHeight = 3
  /\ Len(slideData.bodyDimensions.errors) = 1
  /\ Says(slideData.bodyDimensions.errors[1], <<":", "2", E_VERTICAL, E_FOOTER_HINT>>)

\* C20: the layout-match check gives a size-mismatch error exactly when the
\* declared size of the document in inches (px / 96) differs from the page
\* size of the presentation by more than 0.1 inch in width or in height; with
\* at most 0.1 inch on both axes there is no error.  Both sizes are taken
\* in 96ths of an EMU, in which 0.1 inch is 96 * EMU_PER_IN / 10.
C20_MismatchBeyondTenth ==
  (Measured /\ page.pres.presLayout # Null) =>
    LET Off(layout, px) ==
          IF 96 * layout >= px * EMU_PER_IN
          THEN 96 * layout - px * EMU_PER_IN
          ELSE px * EMU_PER_IN - 96 * layout
    IN  IF \/ Off(page.pres.presLayout[1].width, page.body.width)
                > (96 * EMU_PER_IN) \div 10
           \/ Off(page.pres.presLayout[1].height, page.body.height)
                > (96 * EMU_PER_IN) \div 10
        THEN /\ Len(slideData.dimensionErrors) = 1
             /\ SubSeq(slideData.dimensionErrors[1], 1, 2) = DimensionError
        ELSE slideData.dimensionErrors = <<>>

C20_Witness ==
  /\ Measured
  /\ page.pres.presLayout = Some(CUSTOM_1600x900)
  /\ page.body.width = 1610 /\ page.body.height = 911
  /\ Len(slideData.dimensionErrors) = 1


---------------------------------------------------------------------------
(* validateTextBoxPosition *)

E_TOO_CLOSE == " ("                 \* between the quoted text and the distance
E_AT_LEAST == "px, at least "

\* `${n}` of a whole number of either sign
numberText(n) == IF n < 0 THEN <<"-">> \o decimal(0 - n) ELSE decimal(n)

\* getText(): the text of a plain element, or of the first run or item with text
getText(el) ==
  IF el.type = "list"
  THEN IF \E k \in 1..Len(el.items) : el.items[k].text # <<>>
       THEN el.items[Min({k \in 1..Len(el.items) : el.items[k].text # <<>>})].text
       ELSE <<>>
  ELSE IF el.typeofText = "string" THEN el.text
  ELSE IF \E k \in 1..Len(el.text) : el.text[k].text # <<>>
       THEN el.text[Min({k \in 1..Len(el.text) : el.text[k].text # <<>>})].text
       ELSE <<>>

\* the 48px of the smallest bottom margin
minBottomMarginPx == 48

\* the distance of every text element from the bottom, whatever its font size
tooCloseOfAnyFont(fontSize, distanceFromBottomPx) ==
  distanceFromBottomPx < minBottomMarginPx

\* fontSize > 12 && distanceFromBottomPx < minBottomMarginPx; fontSize in
\* hundredths of a point
tooClose(fontSize, distanceFromBottomPx) ==
  fontSize > 1200 /\ distanceFromBottomPx < minBottomMarginPx

\* the errors for the elements of slideData; the texts of the pages are shorter
\* than the 50 characters the message quotes
validateTextBoxPosition(data, bodyDimensions) ==
  Concat([k \in 1..Len(data.elements) |->
            IF data.elements[k].type \in {"p", "h1", "h2", "h3", "h4", "h5", "h6", "list"}
            THEN Val({IF tooClose(data.elements[k].style.fontSize, distanceFromBottomPx)
                      THEN <<TextBoxError \o <<"\"">> \o getText(data.elements[k])
                             \o <<"\"", E_TOO_CLOSE>> \o numberText(distanceFromBottomPx)
                             \o <<E_AT_LEAST>> \o decimal(minBottomMarginPx) \o <<"px", ")">>>>
                      ELSE <<>> :
                        distanceFromBottomPx \in
                          {bodyDimensions.height
                           - ((data.elements[k].position.y + data.elements[k].position.h)
                              * PX_PER_IN) \div INCH}})
            ELSE <<>>])

MaxTexts == 2        \* text elements of a page

\* a text element of the tag with a font size in px, its bottom edge at a
\* distance from the bottom of a body of 900px
TextAt(tag, fontSize, distance) ==
  Val({[IF tag = "UL" THEN Element("UL", ComputedStyle, <<Element("LI", computed, <<T_item>>)>>)
        ELSE Element(tag, computed, <<T_item>>)
          EXCEPT !.rect = Rect(96, 900 - distance - 48, 192, 48)] :
         computed \in {[ComputedStyle EXCEPT !.fontSize = fontSize]}})

\* font sizes of 12pt and 12.75pt, at 47px and 48px from the bottom; a
\* paragraph below the bottom, one with a span and a large one far from the
\* bottom
TextLib ==
  {TextAt(tag, fontSize, distance) :
     tag \in {"P", "H3", "UL", "LI"}, fontSize \in {16, 17}, distance \in {47, 48}}
  \cup {TextAt("P", 24, 0 - 5), TextAt("P", 24, 400),
        [Element("P", [ComputedStyle EXCEPT !.fontSize = 24],
                 <<Element("SPAN", ComputedStyle, <<T_item>>)>>)
           EXCEPT !.rect = Rect(96, 900 - 30 - 48, 192, 48)]}

InitTextBox ==
  /\ NoRun("text boxes")
  /\ page \in {[root |-> Page(kids),
                bodyDimensions |-> [width |-> 1600, height |-> 900]] :
                 kids \in SeqsUpTo(TextLib, MaxTexts) \ {<<>>}}
  /\ slideData = <<>>

\* slideData = await extractSlideData(page), then
\* validateTextBoxPosition(slideData, bodyDimensions)
ValidateTextBoxPosition ==
  /\ pc = "text boxes"
  /\ slideData' =
       Val({[data |-> data,
             textBoxPositionErrors |-> validateTextBoxPosition(data, page.bodyDimensions)] :
               data \in {extractSlideData(page.root)}})
  /\ pc' = "validated"
  /\ UNCHANGED <<file, backup, original, lastError, fixers, idx, hasAnyFix, applied,
                 result, calls, conv, passes, page>>

SpecTextBox == InitTextBox /\ [][ValidateTextBoxPosition]_vars

\* the children of the body that the check is to report: p, h1-h6 and lists
\* of more than 12pt (16 px) whose bottom edge is less than 48 px from the
\* bottom of the body
TooLow ==
  SelectSeq(page.root.childNodes,
            LAMBDA el :
              /\ el.tagName \in {"P", "H1", "H2", "H3", "H4", "H5", "H6", "UL", "OL"}
              /\ 3 * (IF el.tagName \in {"UL", "OL"} THEN el.childNodes[1].computed.fontSize
                                                     ELSE el.computed.fontSize) > 4 * 12
              /\ page.bodyDimensions.height - (el.rect.top + el.rect.height) < 48)

\* C21: the bottom-margin check reports a text-bearing element (p, h1-h6 or
\* list) exactly when its font size is greater than 12pt and its bottom edge is
\* less than 48px from the bottom of the page; every offending element is
\* reported once, in order, and no other element is reported.
C21_BottomMargin ==
  pc = "validated" =>
    /\ Len(slideData.textBoxPositionErrors) = Len(TooLow)
    /\ \A k \in 1..Len(TooLow) :
         \E i \in 1..(Len(slideData.textBoxPositionErrors[k]) - 1) :
           /\ slideData.textBoxPositionErrors[k][i] = E_TOO_CLOSE
           /\ SubSeq(slideData.textBoxPositionErrors[k], i + 1,
                     Len(slideData.textBoxPositionErrors[k]) - 5)
                = numberText(page.bodyDimensions.height
                             - (TooLow[k].rect.top + TooLow[k].rect.height))

C21_Witness ==
  /\ pc = "validated"
  /\ Len(page.root.childNodes) = 2
  /\ page.root.childNodes[1] = TextAt("UL", 17, 47)
  /\ page.root.childNodes[2] = TextAt("P", 16, 47)
  /\ Len(slideData.textBoxPositionErrors) = 1
  /\ Len(slideData.data.elements) = 2

---------------------------------------------------------------------------
(* The margins of inline elements *)

MaxMargin == 1       \* px of the widest margin of an inline element, either sign
MaxCarriers == 2     \* inline elements of the paragraph

\* the computed style of an inline element with the four margins
Margins(left, right, top, bottom) ==
  [ComputedStyle EXCEPT !.marginLeft = left, !.marginRight = right,
                        !.marginTop = top, !.marginBottom = bottom]

\* no margin, a margin on one side, the same margin on the four sides
MarginStyles ==
  {Margins(0, 0, 0, 0)}
  \cup UNION {{Margins(v, 0, 0, 0), Margins(0, v, 0, 0), Margins(0, 0, v, 0),
               Margins(0, 0, 0, v), Margins(v, v, v, v)} :
                v \in ((0 - MaxMargin)..MaxMargin) \ {0}}

\* <span>Item</span> and <b>Item</b> with the margins, and a span with a
\* margin and no text
CarrierLib ==
  {Element(tagName, computed, <<T_item>>) :
     tagName \in {"SPAN", "B"}, computed \in MarginStyles}
  \cup {Element("SPAN", Margins(MaxMargin, 0, 0, 0), <<>>)}

InitMargins ==
  /\ NoRun("inline")
  /\ page \in {Element("P", ComputedStyle, nodes) :
                 nodes \in SeqsUpTo(CarrierLib, MaxCarriers) \ {<<>>}}
  /\ slideData = <<>>

SpecMargins == InitMargins /\ [][ParseInline]_vars

\* the sides of an inline element with text whose margin is not 0, in the
\* order left, right, top, bottom
NonZeroSides(node) ==
  IF node.childNodes = <<>> THEN <<>>
  ELSE SelectSeq(<<[side |-> "left", px |-> node.computed.marginLeft],
                   [side |-> "right", px |-> node.computed.marginRight],
                   [side |-> "top", px |-> node.computed.marginTop],
                   [side |-> "bottom", px |-> node.computed.marginBottom]>>,
                 LAMBDA m : m.px # 0)

\* C22: any non-zero margin (left, right, top or bottom, of either sign) on an
\* inline element with text is reported by the inline parser, one error per
\* offending side.
C22_EveryNonZeroMarginReported ==
  pc = "parsed" =>
    slideData.errors =
      Concat([k \in 1..Len(page.childNodes) |->
                [s \in 1..Len(NonZeroSides(page.childNodes[k])) |->
                   MarginError(page.childNodes[k].tagName,
                               NonZeroSides(page.childNodes[k])[s].side)]])

---------------------------------------------------------------------------
(* preDownloadImages and addElements *)

\* el.skip: the property is absent until the download of the image has failed
skipped(el) == "skip" \in DOMAIN el /\ el.skip

\* the catch of preDownloadImages: the download of the image is given up
markFetchedAnyway(el) == el

\* the catch of preDownloadImages: el.skip = true
markSkipped(el) ==
  [f \in DOMAIN el \cup {"skip"} |-> IF f = "skip" THEN TRUE ELSE el[f]]

\* el.type === "image" && el.src && el.src.startsWith("http")
isRemoteImage(el) ==
  el.type = "image" /\ el.src # <<>> /\ StartsWith(el.src, <<"http">>)

\* `data:${contentType};base64,${base64}`; the content type is <<>> when the
\* response has no such header
dataUrl(contentType) ==
  <<"data:">> \o (IF contentType = <<>> THEN <<"image/png">> ELSE contentType)
  \o <<";", "base64", ",", "(base64)">>

\* one iteration of the for loop of preDownloadImages; response is <<>> when
\* axios.get raised, else [contentType]
preDownloadImage(el, response) ==
  IF ~isRemoteImage(el) THEN el
  ELSE IF response = <<>> THEN markSkipped(el)
  ELSE [el EXCEPT !.src = dataUrl(response[1].contentType)]

\* isSingleLine: el.position.h <= lineHeight * 1.5, the height in 1/14400 inch
\* against the line height in hundredths of a point, as the source compares
\* them
isSingleLine(el) ==
  10 * el.position.h
    <= 15 * (IF el.style.lineSpacing # Null /\ el.style.lineSpacing # Some(0)
             THEN el.style.lineSpacing[1]
             ELSE (12 * el.style.fontSize) \div 10) * (INCH \div 100)

\* the call on the slide for one element that is not skipped
addElement(el) ==
  CASE el.type = "image" ->
         [call |-> "addImage", position |-> el.position,
          data |-> IF StartsWith(el.src, <<"data:">>) THEN Some(el.src) ELSE Null,
          path |-> IF StartsWith(el.src, <<"data:">>) THEN Null
                   ELSE IF StartsWith(el.src, <<"file://">>)
                   THEN Some(SubSeq(el.src, 2, Len(el.src)))
                   ELSE Some(el.src)]
    [] el.type = "line" ->
         [call |-> "addShape", shape |-> "line",
          position |-> [x |-> el.x1, y |-> el.y1, w |-> el.x2 - el.x1, h |-> el.y2 - el.y1],
          line |-> [color |-> el.color, width |-> el.width]]
    [] el.type = "shape" ->
         [call |-> "addText", text |-> el.text, position |-> el.position,
          shape |-> IF el.shape.rectRadius > 0 THEN "roundRect" ELSE "rect",
          options |-> el.shape]
    [] el.type = "list" ->
         [call |-> "addText", text |-> el.items, position |-> el.position,
          options |-> el.style]
    [] OTHER ->
         [call |-> "addText", text |-> el.text,
          position |->
            IF ~isSingleLine(el) THEN el.position
            ELSE IF el.style.align = "center"
            THEN [el.position EXCEPT !.x = @ - el.position.w \div 100,
                                     !.w = @ + el.position.w \div 50]
            ELSE IF el.style.align = "right"
            THEN [el.position EXCEPT !.x = @ - el.position.w \div 50,
                                     !.w = @ + el.position.w \div 50]
            ELSE [el.position EXCEPT !.w = @ + el.position.w \div 50],
          options |-> el.style]

\* addElements: the calls on the slide, in order
addElements(elements) ==
  Concat([k \in 1..Len(elements) |->
            IF skipped(elements[k]) THEN <<>> ELSE <<addElement(elements[k])>>])

MaxElements == 3     \* elements of the page

Img(src) == [Element("IMG", ComputedStyle, <<>>) EXCEPT !.src = src]

\* <img> of an http and an https address and of a local file, a paragraph and
\* a filled div
SlideLib ==
  {Img(<<"http", "://", "h", "/", "a.png">>), Img(<<"http", "s", "://", "h", "/", "b.png">>),
   Img(<<"file://", "/", "c.png">>), Element("P", ComputedStyle, <<T_item>>),
   Element("DIV", [ComputedStyle EXCEPT !.backgroundColor = Red], <<>>)}

\* what axios.get gives: it raises, or responds with or without a content type
Responses == {<<>>, <<[contentType |-> <<>>]>>, <<[contentType |-> <<"image/jpeg">>]>>}

\* the state after the validation of html2pptx has raised nothing: i is the
\* element preDownloadImages is at, raised the elements whose download raised
InitImages ==
  /\ NoRun("download")
  /\ page \in {Page(kids) : kids \in SeqsUpTo(SlideLib, MaxElements) \ {<<>>}}
  /\ slideData = [elements |-> extractSlideData(page).elements, i |-> 1, raised |-> {},
                  slide |-> <<>>]

\* await preDownloadImages(slideData): the next element of the loop
PreDownloadImage ==
  /\ pc = "download"
  /\ slideData.i <= Len(slideData.elements)
  /\ \E response \in IF isRemoteImage(slideData.elements[slideData.i]) THEN Responses
                     ELSE {<<>>} :
       slideData' =
         [slideData EXCEPT
            !.elements[slideData.i] = preDownloadImage(@, response),
            !.i = @ + 1,
            !.raised = IF isRemoteImage(slideData.elements[slideData.i]) /\ response = <<>>
                       THEN @ \cup {slideData.i} ELSE @]
  /\ UNCHANGED <<file, backup, original, pc, lastError, fixers, idx, hasAnyFix, applied,
                 result, calls, conv, passes, page>>

\* addElements(slideData, targetSlide, pres); return { slide, placeholders }
AddElements ==
  /\ pc = "download"
  /\ slideData.i > Len(slideData.elements)
  /\ slideData' = [slideData EXCEPT !.slide = addElements(slideData.elements)]
  /\ pc' = "returned"
  /\ UNCHANGED <<file, backup, original, lastError, fixers, idx, hasAnyFix, applied,
                 result, calls, conv, passes, page>>

SpecImages == InitImages /\ [][PreDownloadImage \/ AddElements]_vars

\* the elements of the page as they are emitted when no download is skipped
Emitted(k) == addElement(slideData.elements[k])

\* C23: a failure to fetch a remote image never fails the conversion: the
\* image is marked skip and left out of the slide, every other element of the
\* slide is still emitted, in order, and html2pptx returns.
C23_FetchFailureSkipsImage ==
  /\ pc \in {"download", "returned"}
  /\ \A k \in slideData.raised : skipped(slideData.elements[k])
  /\ pc = "returned" =>
       slideData.slide =
         Concat([k \in 1..Len(slideData.elements) |->
                   IF k \in slideData.raised THEN <<>> ELSE <<Emitted(k)>>])

C23_Witness ==
  /\ pc = "returned"
  /\ slideData.raised = {2}
  /\ Len(slideData.elements) = 3
  /\ Len(slideData.slide) = 2
  /\ slideData.slide[1].call = "addImage"
  /\ slideData.slide[1].data # Null
  /\ slideData.slide[2].call = "addText"

---------------------------------------------------------------------------
(* The corner radius of a shape *)

\* a filled <div> of the size with the border radius
Rounded(radius, width, height) ==
  [Element("DIV", [ComputedStyle EXCEPT !.backgroundColor = Red, !.borderRadius = radius],
           <<>>)
     EXCEPT !.rect = Rect(96, 96, width, height),
            !.offset = [width |-> width, height |-> height]]

RadiusUnits == {"%", "pt", "px"}

\* radii from 0 to 75 in each unit, and 12.5 in each unit
Radii ==
  {decimal(n) \o <<unit>> : n \in {0, 1, 12, 25, 49, 50, 51, 75}, unit \in RadiusUnits}
  \cup {<<"1", "2", ".", "5", unit>> : unit \in RadiusUnits}

\* px of the sides of the boxes
Sides == {96, 100, 200}

InitRadius ==
  /\ NoRun("page")
  /\ page \in {Page(<<Rounded(radius, width, height)>>) :
                 radius \in Radii, width \in Sides, height \in Sides}
  /\ slideData = <<>>

SpecRadius == InitRadius /\ [][ExtractSlideData]_vars

\* the box of the page and the radius of the shape made of it
Box == page.childNodes[1]
ShapeRadius == slideData.elements[1].shape.rectRadius

\* the border radius of the box is the number of thousandths in the unit
HasRadius(thousandths, unit) ==
  \/ /\ thousandths % 1000 = 0
     /\ Box.computed.borderRadius = decimal(thousandths \div 1000) \o <<unit>>
  \/ /\ thousandths = 12500
     /\ Box.computed.borderRadius = <<"1", "2", ".", "5", unit>>

\* C24: the border radius in inches (here in 1/14400 inch): a percentage of 50
\* or more gives 1; a percentage p below 50 gives p/100 of the shorter side of
\* the box in inches; points give value/72, pixels value/96 and zero gives 0.
C24_RadiusInInches ==
  pc = "extracted" =>
    /\ Len(slideData.elements) = 1
    /\ slideData.elements[1].type = "shape"
    /\ \A n \in {1000 * k : k \in 0..100} \cup {12500} :
         /\ (n = 0 /\ \E unit \in RadiusUnits : HasRadius(n, unit)) => ShapeRadius = 0
         /\ (n >= 50000 /\ HasRadius(n, "%")) => ShapeRadius = INCH
         /\ (n > 0 /\ n < 50000 /\ HasRadius(n, "%")) =>
              \E shorter \in {Box.rect.width, Box.rect.height} :
                /\ shorter <= Box.rect.width /\ shorter <= Box.rect.height
                /\ 1000 * ShapeRadius = (n \div 100) * ((shorter * INCH) \div 96)
         /\ HasRadius(n, "pt") => 72000 * ShapeRadius = n * INCH
         /\ HasRadius(n, "px") => 96000 * ShapeRadius = n * INCH

\* 25% on a box of 200 x 100 px is 0.25 * (100 / 96) inch
C24_Witness ==
  /\ pc = "extracted"
  /\ Box.computed.borderRadius = <<"2", "5", "%">>
  /\ Box.rect.width = 200 /\ Box.rect.height = 100
  /\ 96 * 4 * ShapeRadius = 100 * INCH

---------------------------------------------------------------------------
(* The result of tryConvertWithAutoFix *)

\* tryConvertWithAutoFix is past its first attempt and has not returned
Repairing == pc \in {"autofix", "fixloop", "retry"}

\* C25: tryConvertWithAutoFix returns success with method "direct" exactly when
\* the first conversion succeeds, success with method "auto_fix" exactly when
\* the first conversion fails, autoFixHtml returns true and the second
\* conversion succeeds, and otherwise a failure with method "failed" whose
\* error is the message of the last conversion attempt that failed.
C25_ResultOfAttempts ==
  /\ Repairing => conv.threw /\ lastError = conv.message /\ result = <<>>
  /\ pc = "done" =>
       /\ result = Succeeded("direct") <=> (CallCount("html2pptx") = 1 /\ ~conv.threw)
       /\ result = Succeeded("auto_fix")
            <=> /\ calls = <<"html2pptx", "autoFixHtml", "fixed", "html2pptx">>
                /\ ~conv.threw
       /\ conv.threw <=> result = Failed(conv.message)
       /\ result[1].method \in {"direct", "auto_fix", "failed"}
       /\ calls[Len(calls)] \in {"not fixed", "threw"} =>
            conv.threw /\ CallCount("html2pptx") = 1

\* the repair has succeeded and the retry has failed in writing the slide
C25_Witness ==
  /\ pc = "done"
  /\ calls = <<"html2pptx", "autoFixHtml", "fixed", "html2pptx">>
  /\ conv.threw
  /\ result = Failed(conv.message)
  /\ conv.in.emitFailure # <<>>

---------------------------------------------------------------------------
(* convertFolder *)

MaxFiles == 3        \* entries of the folder

\* the names a folder can hold, in the order of Array.prototype.sort
SortedNames ==
  <<<<"_skip_", "a", ".html">>, <<"a", ".html">>, <<"b", ".html">>,
    <<"b", ".html", ".backup">>, <<"c", ".html">>, <<"notes", ".txt">>>>

\* file.endsWith(".html") && !file.endsWith(".backup") && !file.startsWith("_skip_")
isSlideFile(name) ==
  /\ name[Len(name)] = ".html"
  /\ name[Len(name)] # ".backup"
  /\ name[1] # "_skip_"

\* readdirSync(folderPath).filter(...).sort()
listHtmlFiles(entries) ==
  SelectSeq(SortedNames, LAMBDA name : name \in entries /\ isSlideFile(name))

\* what tryConvertWithAutoFix returns for the outcomes of its attempts, and the
\* slides the attempts have added: html2pptx raises its validation errors
\* before pres.addSlide(), and after it only fills the slide (preDownloadImages
\* catches the failures of its downloads), so that an attempt that raises has
\* added no slide and one that returns has added one.
\* first and second are <<>> for an attempt that returned, else <<message>>
tryConvert(first, fixed, second) ==
  IF first = <<>> THEN [result |-> Succeeded("direct"), slides |-> 1]
  ELSE IF ~fixed THEN [result |-> Failed(first[1]), slides |-> 0]
  ELSE IF second = <<>> THEN [result |-> Succeeded("auto_fix"), slides |-> 1]
  ELSE [result |-> Failed(second[1]), slides |-> 0]

\* the counters after a file, every result counted as a direct success
tallyAsDirect(results, fileName, convertResult) ==
  [results EXCEPT !.success = @ + 1, !.direct = @ + 1]

\* the counters of convertFolder after the result of one file
tally(results, fileName, convertResult) ==
  IF convertResult.success
  THEN [results EXCEPT
          !.success = @ + 1,
          !.direct = IF convertResult.method = "direct" THEN @ + 1 ELSE @,
          !.autoFixed = IF convertResult.method = "auto_fix" THEN @ + 1 ELSE @]
  ELSE [results EXCEPT
          !.failed = @ + 1,
          !.failedFiles = Append(@, [name |-> fileName, error |-> convertResult.error])]

\* the messages of the attempts that raise
AttemptErrors == {<<>>, <<OverflowError>>, <<UnwrappedError>>}

InitFolder ==
  /\ NoRun("list")
  /\ page \in {entries \in SUBSET {SortedNames[k] : k \in 1..Len(SortedNames)} :
                 Cardinality(entries) <= MaxFiles}
  /\ slideData = <<>>

\* the listing of the folder; process.exit(1) when it has no slide file
ListFolder ==
  /\ pc = "list"
  /\ slideData' =
       [htmlFiles |-> listHtmlFiles(page), i |-> 1,
        results |-> [success |-> 0, failed |-> 0, direct |-> 0, autoFixed |-> 0,
                     failedFiles |-> <<>>],
        converted |-> <<>>, slides |-> <<>>, written |-> FALSE, returned |-> <<>>]
  /\ pc' = IF listHtmlFiles(page) = <<>> THEN "exited" ELSE "files"
  /\ UNCHANGED <<file, backup, original, lastError, fixers, idx, hasAnyFix, applied,
                 result, calls, conv, passes, page>>

\* one iteration of the for loop: await tryConvertWithAutoFix(htmlFile, pptx)
\* and the counting of its result
ConvertFile ==
  /\ pc = "files"
  /\ slideData.i <= Len(slideData.htmlFiles)
  /\ \E first \in AttemptErrors, fixed \in BOOLEAN, second \in AttemptErrors :
       \E done \in {tryConvert(first, fixed, second)} :
         slideData' =
           [slideData EXCEPT
              !.results = tally(@, slideData.htmlFiles[slideData.i], done.result[1]),
              !.converted = Append(@, slideData.htmlFiles[slideData.i]),
              !.slides = @ \o [k \in 1..done.slides |-> slideData.htmlFiles[slideData.i]],
              !.i = @ + 1]
  /\ UNCHANGED <<file, backup, original, pc, lastError, fixers, idx, hasAnyFix, applied,
                 result, calls, conv, passes, page>>

\* after the loop: pptx.writeFile and return true when a file has succeeded,
\* else return false
WriteFolder ==
  /\ pc = "files"
  /\ slideData.i > Len(slideData.htmlFiles)
  /\ slideData' = [slideData EXCEPT !.written = slideData.results.success > 0,
                                    !.returned = <<slideData.results.success > 0>>]
  /\ pc' = "done"
  /\ UNCHANGED <<file, backup, original, lastError, fixers, idx, hasAnyFix, applied,
                 result, calls, conv, passes, page>>

SpecFolder == InitFolder /\ [][ListFolder \/ ConvertFile \/ WriteFolder]_vars

\* the slide files of the folder, in sorted order
SlideFiles ==
  SelectSeq(SortedNames,
            LAMBDA name : /\ name \in page
                          /\ name \in {<<"a", ".html">>, <<"b", ".html">>, <<"c", ".html">>})

---------------------------------------------------------------------------
(* Lists inside list items *)

\* <li>world</li>
LI_world == Element("LI", ComputedStyle, <<T_world>>)

\* <li>Hello <ul>...</ul></li>: an item that holds a list of its own
LI_nested(tag, items) ==
  Element("LI", ComputedStyle, <<T_hello, Element(tag, ComputedStyle, items)>>)

NestedLib ==
  {LI_plain, LI_world}
  \cup {LI_nested(tag, items) :
          tag \in {"UL", "OL"}, items \in SeqsUpTo({LI_plain, LI_world}, 2) \ {<<>>}}

\* a list of one or two items, and a paragraph after it or none
InitNested ==
  /\ NoRun("page")
  /\ page \in {Page(<<Element(tag, ComputedStyle, items)>> \o after) :
                 tag \in {"UL", "OL"}, items \in SeqsUpTo(NestedLib, 2) \ {<<>>},
                 after \in {<<>>, <<Element("P", ComputedStyle, <<T_item>>)>>}}
  /\ slideData = <<>>

SpecNested == InitNested /\ [][ExtractSlideData]_vars

\* the runs of the items of every list element of the slide, one after another
ItemRunsEmitted ==
  Concat([k \in 1..Len(slideData.elements) |->
            IF slideData.elements[k].type = "list" THEN slideData.elements[k].items
            ELSE <<>>])

\* C27: during one extraction no text content is emitted twice: a list item
\* claimed by a list element is not emitted again, neither in another list
\* element (nested lists included) nor as a text element of its own.  Every
\* item of the page has one run of text, so the slide holds at most one run
\* for each <li> and no text element of type li.
C27_ListItemEmittedOnce ==
  pc = "extracted" =>
    /\ Len(ItemRunsEmitted) <= Len(el_querySelectorAll(page, {"LI"}))
    /\ \A k \in 1..Len(slideData.elements) : slideData.elements[k].type # "li"

---------------------------------------------------------------------------
(* The children of a div rewritten by the unwrapped-text fixer *)

\* h3 for a class with "title" that has neither "report-title" nor
\* "page-title", else p
WrapperOf(div) ==
  IF /\ Includes(className(div), <<"title">>)
     /\ ~Includes(className(div), <<"report", "-", "title">>)
     /\ ~Includes(className(div), <<"page", "-", "title">>)
  THEN "h3" ELSE "p"

\* the divs of the document with text of their own that are in no other such div
RewrittenDivs(document) ==
  {path \in Range(querySelectorAll(document, "div")) :
     /\ hasDirectTextNode(NodeAt(document.body, path))
     /\ \A outer \in Range(querySelectorAll(document, "div")) :
          IsProperPrefix(outer, path) => ~hasDirectTextNode(NodeAt(document.body, outer))}

\* the child of the rewritten div stands for the child of the div as it was
KeptOrWrapped(was, now, wrapTag) ==
  IF IsText(was) /\ Trim(was.text) # <<>>
  THEN now = Elem(wrapTag, <<>>, <<TextNode(Trim(was.text))>>)
  ELSE now = was

\* C28: when the unwrapped-text fixer rewrites a div, its children keep their
\* order, every element child is kept unchanged, whitespace-only text nodes are
\* kept, and each text child with other content is replaced in place by one
\* wrapper holding that text: h3 when the class of the div contains "title"
\* but neither "report-title" nor "page-title", else p.
C28_ChildrenKeptInOrder ==
  \A k \in 1..Len(fixers) :
    HasRun(k, "UnwrappedTextFixer") =>
      \A path \in RewrittenDivs(JSDOM(fixers[k].htmlContent)) :
        \E was \in {NodeAt(JSDOM(fixers[k].htmlContent).body, path)},
           now \in {NodeAt(fixers[k].dom.body, path)} :
          /\ Len(now.kids) = Len(was.kids)
          /\ \A j \in 1..Len(was.kids) :
               j <= Len(now.kids) => KeptOrWrapped(was.kids[j], now.kids[j], WrapperOf(was))

---------------------------------------------------------------------------
(* The style split of the text-paint fixer on one class rule *)

MaxDecls == 2        \* declarations of the class rule

\* border: 1px solid #000
D_border == <<"border", ":", SP, "1px", SP, "solid", SP, "#000">>
\* color: #111
D_color == <<"color", ":", SP, "#111">>
\* background-color: red
D_backgroundColor == <<"background", "-", "color", ":", SP, "red">>
\* border-top-width: 2px
D_borderTopWidth == <<"border", "-", "top", "-", "width", ":", SP, "2px">>
\* box-shadow: none
D_boxShadow == <<"box", "-", "shadow", ":", SP, "none">>
\* box-sizing: border-box
D_boxSizing == <<"box", "-", "sizing", ":", SP, "border", "-", "box">>
\* background: url("data:image/png;base64,AAAA")
D_dataUrl ==
  <<"background", ":", SP, "url", "(", "\"", "data", ":", "image/png", ";",
    "base64,AAAA", "\"", ")">>

DeclLib ==
  {D_border, D_color, D_backgroundColor, D_borderTopWidth, D_boxShadow, D_boxSizing,
   D_dataUrl}

\* .box { declaration; declaration; }
ClassRule(declarations) ==
  <<".", "box", SP, "{", SP>> \o JoinWith(declarations, <<";", SP>>) \o <<";", SP, "}">>

\* page: the declarations of the rule of .box in a document with <p class="box">T</p>
InitSeparate ==
  /\ NoRun("separate")
  /\ page \in SeqsUpTo(DeclLib, MaxDecls) \ {<<>>}
  /\ slideData = <<>>

\* fix() of the text-paint fixer for the error that the <p> has a border:
\* separated is what separateStyles returns for the element, fixer the fixer
\* after fix()
SeparateStyles ==
  /\ pc = "separate"
  /\ \E document \in {[styles |-> <<ClassRule(page)>>, body |-> Body(<<P_box>>)]} :
       slideData' =
         [separated |-> separateStyles(document.styles[1], className(P_box)),
          fixer |-> TextElementBorderFixer_fix(
                      ErrorFixer("TextElementBorderFixer", PaintError("p", "border"),
                                 [markup |-> document, authored |-> TRUE]))]
  /\ pc' = "separated"
  /\ UNCHANGED <<file, backup, original, lastError, fixers, idx, hasAnyFix, applied,
                 result, calls, conv, passes, page>>

SpecSeparate == InitSeparate /\ [][SeparateStyles]_vars

\* the property of the declaration is background*, border* or box-shadow
ContainerOnly(declaration) ==
  \/ declaration[1] \in {"background", "border"}
  \/ SubSeq(declaration, 1, 3) = <<"box", "-", "shadow">>

TextSafe(declaration) == ~ContainerOnly(declaration)

\* C29: the style split of the text-paint fixer is a partition: every
\* declaration of the class rule is in exactly one of the container-only group
\* (background*, border*, box-shadow) and the text-safe group, in its original
\* order, none lost or duplicated; when the container-only group is empty, the
\* fixer leaves stylesheet and element unchanged and counts no fix.
C29_StyleSplitIsPartition ==
  pc = "separated" =>
    /\ styleLinesOf(slideData.separated.containerStyles) = SelectSeq(page, ContainerOnly)
    /\ styleLinesOf(slideData.separated.textStyles) = SelectSeq(page, TextSafe)
    /\ SelectSeq(page, ContainerOnly) = <<>> =>
         /\ slideData.fixer.dom = JSDOM(slideData.fixer.htmlContent)
         /\ ~slideData.fixer.fixed
         /\ slideData.fixer.fixCount = 0

---------------------------------------------------------------------------
(* The selection of the gradient fixer *)

\* the document the gradient fixer finds: what the last earlier fixer that
\* succeeded has serialized, or the file as it was
CurrentMarkup ==
  IF LastFixedBefore(3) = 0 THEN original.markup ELSE fixers[LastFixedBefore(3)].dom

\* the markup literally contains a gradient or a background image
HasGradientText(markup) ==
  \/ Includes(HtmlText(markup), <<"linear-gradient">>)
  \/ Includes(HtmlText(markup), <<"radial-gradient">>)
  \/ Includes(HtmlText(markup), <<"background", "-", "image", ":", SP, "url", "(">>)

\* C30: the gradient fixer is selected exactly when the error text contains
\* the 'use solid color or border as shape' phrase or the current markup, as
\* updated by an earlier successful fixer of the same pass, literally contains
\* linear-gradient, radial-gradient or background-image: url( ; when neither
\* holds, autoFixHtml leaves the gradient and background-image content of
\* every stylesheet as the earlier fixers have left it.
C30_GradientFixerSelection ==
  AutoFixDone =>
    /\ fixers[3].name = "CssGradientFixer"
    /\ fixers[3].matched
         <=> \/ Includes(fixers[3].errorMessage, <<E_USE_SOLID>>)
             \/ HasGradientText(CurrentMarkup)
    /\ fixers[3].runs = IF fixers[3].matched THEN 1 ELSE 0
    /\ ~fixers[3].matched =>
         /\ ~fixers[3].fixed
         /\ fixers[3].dom = CurrentMarkup
         /\ file.markup.styles = CurrentMarkup.styles

\* the error names no gradient: the fixer is selected for the gradient in the
\* markup that the text-paint fixer has rewritten before it
C30_Witness ==
  /\ AutoFixDone
  /\ fixers[3].matched
  /\ fixers[3].fixed
  /\ ~Includes(fixers[3].errorMessage, <<E_USE_SOLID>>)
  /\ LastFixedBefore(3) = 1

====
